---- MODULE Spec2Model ----
(***************************************************************************)
(* Model of the tea API: the in-memory store (app/store/memory.py) and the *)
(* Flask route handlers (app/routes/*.py) that call it from concurrent     *)
(* request threads.  Every store method runs its body under one Lock; a    *)
(* handler is a sequence of store calls with local computation between.    *)
(***************************************************************************)
EXTENDS Integers, Sequences, FiniteSets, TLC

(***************************************************************************)
(* Bounds of the model.                                                    *)
(***************************************************************************)
\* number of request threads serving requests in parallel
NumThreads == 2
\* the largest id uuid4() hands out (ids are 1, 2, 3, ... in order of issue)
MaxId == 5

\* the largest number of steeps a listed store holds
MaxSteeps == 3

\* the latest reading of the clock (readings are 0, 1, ... and never go back)
MaxClock == 1

Threads == 1..NumThreads

(***************************************************************************)
(* Python values.  None is <<>>, a present value v is <<v>> wherever a     *)
(* value may be None (request bodies, nullable fields, dict.get results).  *)
(***************************************************************************)
None == <<>>
Some(v) == <<v>>
Val(o) == o[1]

\* a request body: the JSON object, as a function from the keys it holds
NoBody == [k \in {} |-> None]
Supplied(body, k) == k \in DOMAIN body
\* the value a pydantic request model gives field k: the body's, else the default
Field(body, k, default) == IF Supplied(body, k) THEN body[k] ELSE default
\* Python truthiness of an optional int: None and 0 are falsy
Truthy(o) == o # None /\ Val(o) # 0

(***************************************************************************)
(* dict[str, Entity]: insertion-ordered, as a sequence of entities.        *)
(***************************************************************************)
Ids(d) == {d[i].id : i \in DOMAIN d}
Has(d, id) == id \in Ids(d)
\* d.get(id)
DictGet(d, id) ==
    IF Has(d, id) THEN Some(d[CHOOSE i \in DOMAIN d : d[i].id = id]) ELSE None
\* d[e.id] = e: an existing key keeps its position, a new key goes last
DictSet(d, e) ==
    IF Has(d, e.id)
    THEN [i \in DOMAIN d |-> IF d[i].id = e.id THEN e ELSE d[i]]
    ELSE Append(d, e)
\* del d[id]
DictDel(d, id) == SelectSeq(d, LAMBDA x : x.id # id)

VARIABLES
    teapots,    \* MemoryStore._teapots
    teas,       \* MemoryStore._teas
    brews,      \* MemoryStore._brews
    steeps,     \* MemoryStore._steeps
    lock,       \* MemoryStore._lock: 0 when free, else the thread holding it
    pc,         \* what each request thread is at: "idle" or a place in a handler
    phase,      \* "local", "call" (waiting for the lock), "body", "cascade"
    loc,        \* each thread's local variables
    resp,       \* each thread's last response
    uuid,       \* the number of ids issued so far; uuid4() gives uuid + 1
    clock,      \* datetime.now(timezone.utc)
    deleted,    \* history: the brew ids for which delete_brew returned True
    born        \* history: the kind, id and created_at of every entity a create
                \* stored, in the order of the inserts

vars == <<teapots, teas, brews, steeps, lock, pc, phase, loc, resp, uuid, clock, deleted,
          born>>
store_vars == <<teapots, teas, brews, steeps>>

(***************************************************************************)
(* Steep numbering and listing, as the store computes them.                *)
(***************************************************************************)
SetMax(S) == CHOOSE m \in S : \A x \in S : x <= m

\* MemoryStore.get_next_steep_number, lines 201-204
NextSteepNumberOne(brew_id) == 1
NextSteepNumber(brew_id) ==
    LET existing == SelectSeq(steeps, LAMBDA s : s.brew_id = brew_id)
    IN  IF existing = <<>> THEN 1
        ELSE SetMax({existing[i].steep_number : i \in DOMAIN existing}) + 1

\* list.sort(key=steep_number): stable, by insertion of each item in turn
RECURSIVE SortBySteepNumber(_)
InsertSorted(sorted, s) ==
    LET before == SelectSeq(sorted, LAMBDA x : x.steep_number <= s.steep_number)
        after  == SelectSeq(sorted, LAMBDA x : x.steep_number > s.steep_number)
    IN  before \o <<s>> \o after
SortBySteepNumber(items) ==
    IF items = <<>> THEN <<>>
    ELSE InsertSorted(SortBySteepNumber(SubSeq(items, 1, Len(items) - 1)),
                      items[Len(items)])

\* items[start:end] of a Python list, 0-based, clipped to the list
SliceFromNext(items, start, end) ==
    LET lo == IF start + 1 > Len(items) THEN Len(items) ELSE start + 1
        hi == IF end + 1 > Len(items) THEN Len(items) ELSE end + 1
    IN  IF hi <= lo THEN <<>> ELSE SubSeq(items, lo + 1, hi)
Slice(items, start, end) ==
    LET lo == IF start > Len(items) THEN Len(items) ELSE start
        hi == IF end > Len(items) THEN Len(items) ELSE end
    IN  IF hi <= lo THEN <<>> ELSE SubSeq(items, lo + 1, hi)

\* list_steeps_by_brew without the sort: the steeps of the brew as stored
ListSteepsByBrewUnsorted(brew_id, page, limit) ==
    LET items == SelectSeq(steeps, LAMBDA s : s.brew_id = brew_id)
        start == (page - 1) * limit
    IN  <<Slice(items, start, start + limit), Len(items)>>
\* MemoryStore.list_steeps_by_brew, lines 183-191: <<page of items, total>>
ListSteepsByBrew(brew_id, page, limit) ==
    LET items == SortBySteepNumber(SelectSeq(steeps, LAMBDA s : s.brew_id = brew_id))
        start == (page - 1) * limit
    IN  <<Slice(items, start, start + limit), Len(items)>>

\* `if query.material:` and the like: None and the empty string are falsy
TruthyStr(o) == o # None /\ Val(o) # ""

\* the query's page and limit, with the defaults of the query models
QueryPage(query) == Val(Field(query, "page", Some(1)))
QueryLimit(query) == Val(Field(query, "limit", Some(20)))

\* MemoryStore.list_teapots, lines 38-51: <<page of items, total>>
ListTeapotsOverlapping(query) ==
    LET material == Field(query, "material", None)
        style    == Field(query, "style", None)
        items1 == IF TruthyStr(material)
                  THEN SelectSeq(teapots, LAMBDA x : x.material = Val(material))
                  ELSE teapots
        items2 == IF TruthyStr(style)
                  THEN SelectSeq(items1, LAMBDA x : x.style = Val(style))
                  ELSE items1
        start == (QueryPage(query) - 1) * (QueryLimit(query) - 1)
    IN  <<Slice(items2, start, start + QueryLimit(query)), Len(items2)>>
ListTeapots(query) ==
    LET material == Field(query, "material", None)
        style    == Field(query, "style", None)
        items1 == IF TruthyStr(material)
                  THEN SelectSeq(teapots, LAMBDA x : x.material = Val(material))
                  ELSE teapots
        items2 == IF TruthyStr(style)
                  THEN SelectSeq(items1, LAMBDA x : x.style = Val(style))
                  ELSE items1
        start == (QueryPage(query) - 1) * QueryLimit(query)
    IN  <<Slice(items2, start, start + QueryLimit(query)), Len(items2)>>

\* MemoryStore.list_brews, lines 118-135: <<page of items, total>>; an id is
\* falsy when it is the empty string, which the model writes 0
ListBrews(query) ==
    LET status    == Field(query, "status", None)
        teapot_id == Field(query, "teapotId", None)
        tea_id    == Field(query, "teaId", None)
        items1 == IF TruthyStr(status)
                  THEN SelectSeq(brews, LAMBDA b : b.status = Val(status))
                  ELSE brews
        items2 == IF Truthy(teapot_id)
                  THEN SelectSeq(items1, LAMBDA b : b.teapot_id = Val(teapot_id))
                  ELSE items1
        items3 == IF Truthy(tea_id)
                  THEN SelectSeq(items2, LAMBDA b : b.tea_id = Val(tea_id))
                  ELSE items2
        start == (QueryPage(query) - 1) * QueryLimit(query)
    IN  <<Slice(items3, start, start + QueryLimit(query)), Len(items3)>>

\* MemoryStore.list_brews_by_teapot, lines 137-148: <<page of items, total>>
ListBrewsByTeapot(teapot_id, query) ==
    LET items == SelectSeq(brews, LAMBDA b : b.teapot_id = teapot_id)
        start == (QueryPage(query) - 1) * QueryLimit(query)
    IN  <<Slice(items, start, start + QueryLimit(query)), Len(items)>>

\* total_pages as the list handlers compute it
TotalPagesFloor(total, limit) ==
    IF total > 0 THEN total \div limit ELSE 0
TotalPages(total, limit) ==
    IF total > 0 THEN (total + limit - 1) \div limit ELSE 0

(***************************************************************************)
(* Seeded entities: what POST /teapots, POST /teas and POST /brews store.  *)
(***************************************************************************)
SeedTeapot ==
    [id |-> 1, name |-> "pot", material |-> "ceramic", capacity_ml |-> 500,
     style |-> "english", description |-> None, created_at |-> 0, updated_at |-> 0]
SeedTea ==
    [id |-> 2, name |-> "sencha", type |-> "green", origin |-> None,
     caffeine_level |-> "medium", steep_temp_celsius |-> 80,
     steep_time_seconds |-> 120, description |-> None,
     created_at |-> 0, updated_at |-> 0]

SeedBrew ==
    [id |-> 3, teapot_id |-> 1, tea_id |-> 2, status |-> "preparing",
     water_temp_celsius |-> 80, notes |-> None, started_at |-> 0,
     completed_at |-> None, created_at |-> 0, updated_at |-> 0]

\* what the history keeps of an entity a create stored
Born(kind, e) == [kind |-> kind, id |-> e.id, created_at |-> e.created_at]
BornSet == {born[i] : i \in DOMAIN born}

\* a thread's local variables: the path id, the id or entity passed to the next
\* store call, what the last store call returned (an entity or None from a get,
\* a bool from a delete, a number), the request body and `now`
Blank ==
    [id |-> 0, key |-> 0, ent |-> None, found |-> None, ok |-> FALSE, num |-> 0,
     data |-> NoBody, now |-> 0, items |-> <<>>, total |-> 0]
\* the pagination object of a list response
NoPagination == [page |-> 0, limit |-> 0, total |-> 0, total_pages |-> 0]
NoResp == [status |-> 0, code |-> "", message |-> "", data |-> <<>>,
           pagination |-> NoPagination]

(***************************************************************************)
(* Store calls.  A thread at a call site waits for the lock ("call"), runs *)
(* the method body holding it ("body"), and leaves the with-block, which   *)
(* releases the lock, with the method's return value in the locals.        *)
(***************************************************************************)
\* each call site of a handler: the store method called and where it returns to
CallTable ==
    ("create_brew.get_teapot"  :> [op |-> "get_teapot", next |-> "create_brew.check_teapot"]) @@
    ("create_brew.get_tea"     :> [op |-> "get_tea", next |-> "create_brew.build"]) @@
    ("create_brew.create_brew" :> [op |-> "create_brew", next |-> "create_brew.respond"]) @@
    ("delete_brew.delete_brew" :> [op |-> "delete_brew", next |-> "delete_brew.respond"]) @@
    ("create_steep.get_brew"   :> [op |-> "get_brew", next |-> "create_steep.validate"]) @@
    ("create_steep.get_next_steep_number" :>
        [op |-> "get_next_steep_number", next |-> "create_steep.build"]) @@
    ("create_steep.create_steep" :> [op |-> "create_steep", next |-> "create_steep.respond"]) @@
    ("delete_teapot.delete_teapot" :> [op |-> "delete_teapot", next |-> "delete_teapot.respond"]) @@
    ("delete_tea.delete_tea"   :> [op |-> "delete_tea", next |-> "delete_tea.respond"]) @@
    ("update_teapot.get_teapot" :> [op |-> "get_teapot", next |-> "update_teapot.build"]) @@
    ("update_teapot.update_teapot" :> [op |-> "update_teapot", next |-> "update_teapot.respond"]) @@
    ("patch_teapot.get_teapot" :> [op |-> "get_teapot", next |-> "patch_teapot.merge"]) @@
    ("patch_teapot.update_teapot" :> [op |-> "update_teapot", next |-> "patch_teapot.respond"]) @@
    ("update_tea.get_tea"      :> [op |-> "get_tea", next |-> "update_tea.build"]) @@
    ("update_tea.update_tea"   :> [op |-> "update_tea", next |-> "update_tea.respond"]) @@
    ("patch_tea.get_tea"       :> [op |-> "get_tea", next |-> "patch_tea.merge"]) @@
    ("patch_tea.update_tea"    :> [op |-> "update_tea", next |-> "patch_tea.respond"]) @@
    ("patch_brew.get_brew"     :> [op |-> "get_brew", next |-> "patch_brew.merge"]) @@
    ("patch_brew.update_brew"  :> [op |-> "update_brew", next |-> "patch_brew.respond"]) @@
    ("create_teapot.create_teapot" :> [op |-> "create_teapot", next |-> "create_teapot.respond"]) @@
    ("list_teapots.list_teapots" :> [op |-> "list_teapots", next |-> "list_teapots.respond"]) @@
    ("list_brews.list_brews"   :> [op |-> "list_brews", next |-> "list_brews.respond"]) @@
    ("list_teapot_brews.get_teapot" :>
        [op |-> "get_teapot", next |-> "list_teapot_brews.validate"]) @@
    ("list_teapot_brews.list_brews_by_teapot" :>
        [op |-> "list_brews_by_teapot", next |-> "list_teapot_brews.respond"]) @@
    ("get_teapot.get_teapot"   :> [op |-> "get_teapot", next |-> "get_teapot.respond"]) @@
    ("get_tea.get_tea"         :> [op |-> "get_tea", next |-> "get_tea.respond"]) @@
    ("get_brew.get_brew"       :> [op |-> "get_brew", next |-> "get_brew.respond"]) @@
    ("list_steeps.get_brew"    :> [op |-> "get_brew", next |-> "list_steeps.validate"]) @@
    ("list_steeps.list_steeps_by_brew" :>
        [op |-> "list_steeps_by_brew", next |-> "list_steeps.respond"])

\* the thread holds the lock inside the body of store method op
InBody(t, op) ==
    /\ phase[t] = "body"
    /\ pc[t] \in DOMAIN CallTable
    /\ CallTable[pc[t]].op = op

\* `with self._lock:` on entry: Lock.acquire() blocks until the lock is free
AcquireUnguarded(t) ==
    /\ phase[t] = "call"
    /\ lock' = t
    /\ phase' = [phase EXCEPT ![t] = "body"]
    /\ UNCHANGED <<store_vars, pc, loc, resp, uuid, clock, deleted, born>>
Acquire(t) ==
    /\ phase[t] = "call"
    /\ lock = 0
    /\ lock' = t
    /\ phase' = [phase EXCEPT ![t] = "body"]
    /\ UNCHANGED <<store_vars, pc, loc, resp, uuid, clock, deleted, born>>

\* `with self._lock:` on exit: Lock.release()
UnlockNever(t) == lock' = lock
Unlock(t) == lock' = 0

\* `return` from inside the with-block of a store method; l is the caller's
\* local variables with the returned value in place
Return(t, l) ==
    /\ Unlock(t)
    /\ loc' = [loc EXCEPT ![t] = l]
    /\ pc' = [pc EXCEPT ![t] = CallTable[pc[t]].next]
    /\ phase' = [phase EXCEPT ![t] = "local"]

\* the handler calls a store method next: it goes to the call site with the argument
Call(t, site, l) ==
    /\ pc' = [pc EXCEPT ![t] = site]
    /\ phase' = [phase EXCEPT ![t] = "call"]
    /\ loc' = [loc EXCEPT ![t] = l]
    /\ UNCHANGED resp

\* a request arrives at an idle thread, whose handler starts with a store call
Begin(t, site, l) ==
    /\ pc[t] = "idle"
    /\ pc' = [pc EXCEPT ![t] = site]
    /\ phase' = [phase EXCEPT ![t] = "call"]
    /\ loc' = [loc EXCEPT ![t] = l]
    /\ resp' = [resp EXCEPT ![t] = NoResp]

\* the handler returns a response; the thread is free for the next request
Respond(t, status, code, message) ==
    /\ resp' = [resp EXCEPT ![t] = [NoResp EXCEPT !.status = status, !.code = code,
                                                  !.message = message]]
    /\ pc' = [pc EXCEPT ![t] = "idle"]
    /\ phase' = [phase EXCEPT ![t] = "local"]
    /\ loc' = [loc EXCEPT ![t] = Blank]

At(t, place) == pc[t] = place /\ phase[t] = "local"

\* a get handler returns 200 with the entity
RespondEntity(t, entity) ==
    /\ resp' = [resp EXCEPT ![t] = [NoResp EXCEPT !.status = 200, !.data = <<entity>>]]
    /\ pc' = [pc EXCEPT ![t] = "idle"]
    /\ phase' = [phase EXCEPT ![t] = "local"]
    /\ loc' = [loc EXCEPT ![t] = Blank]

\* a list handler returns 200 with the page of items and the pagination object
RespondList(t, items, query, total) ==
    /\ resp' = [resp EXCEPT ![t] =
                  [NoResp EXCEPT !.status = 200, !.data = items,
                      !.pagination = [page |-> QueryPage(query), limit |-> QueryLimit(query),
                                      total |-> total,
                                      total_pages |-> TotalPages(total, QueryLimit(query))]]]
    /\ pc' = [pc EXCEPT ![t] = "idle"]
    /\ phase' = [phase EXCEPT ![t] = "local"]
    /\ loc' = [loc EXCEPT ![t] = Blank]

(***************************************************************************)
(* MemoryStore methods: the body each runs while holding the lock.         *)
(***************************************************************************)
store_get_teapot(t) ==
    /\ InBody(t, "get_teapot")
    /\ Return(t, [loc[t] EXCEPT !.found = DictGet(teapots, loc[t].key)])
    /\ UNCHANGED <<store_vars, resp, uuid, clock, deleted, born>>

\* a delete_teapot that also removes the brews made in the teapot
store_delete_teapot_cascading(t) ==
    /\ InBody(t, "delete_teapot")
    /\ IF ~Has(teapots, loc[t].key)
       THEN Return(t, [loc[t] EXCEPT !.ok = FALSE]) /\ UNCHANGED <<teapots, brews>>
       ELSE /\ Return(t, [loc[t] EXCEPT !.ok = TRUE])
            /\ teapots' = DictDel(teapots, loc[t].key)
            /\ brews' = SelectSeq(brews, LAMBDA b : b.teapot_id # loc[t].key)
    /\ UNCHANGED <<teas, steeps, resp, uuid, clock, deleted, born>>
store_delete_teapot(t) ==
    /\ InBody(t, "delete_teapot")
    /\ IF ~Has(teapots, loc[t].key)
       THEN Return(t, [loc[t] EXCEPT !.ok = FALSE]) /\ UNCHANGED teapots
       ELSE Return(t, [loc[t] EXCEPT !.ok = TRUE]) /\ teapots' = DictDel(teapots, loc[t].key)
    /\ UNCHANGED <<teas, brews, steeps, resp, uuid, clock, deleted, born>>

store_get_tea(t) ==
    /\ InBody(t, "get_tea")
    /\ Return(t, [loc[t] EXCEPT !.found = DictGet(teas, loc[t].key)])
    /\ UNCHANGED <<store_vars, resp, uuid, clock, deleted, born>>

\* a delete_tea that reports every id as deleted
store_delete_tea_always_true(t) ==
    /\ InBody(t, "delete_tea")
    /\ IF ~Has(teas, loc[t].key)
       THEN Return(t, [loc[t] EXCEPT !.ok = TRUE]) /\ UNCHANGED teas
       ELSE Return(t, [loc[t] EXCEPT !.ok = TRUE]) /\ teas' = DictDel(teas, loc[t].key)
    /\ UNCHANGED <<teapots, brews, steeps, resp, uuid, clock, deleted, born>>
store_delete_tea(t) ==
    /\ InBody(t, "delete_tea")
    /\ IF ~Has(teas, loc[t].key)
       THEN Return(t, [loc[t] EXCEPT !.ok = FALSE]) /\ UNCHANGED teas
       ELSE Return(t, [loc[t] EXCEPT !.ok = TRUE]) /\ teas' = DictDel(teas, loc[t].key)
    /\ UNCHANGED <<teapots, brews, steeps, resp, uuid, clock, deleted, born>>

store_create_brew(t) ==
    /\ InBody(t, "create_brew")
    /\ brews' = DictSet(brews, Val(loc[t].ent))
    /\ Return(t, loc[t])
    /\ born' = Append(born, Born("brew", Val(loc[t].ent)))
    /\ UNCHANGED <<teapots, teas, steeps, resp, uuid, clock, deleted>>

store_get_brew(t) ==
    /\ InBody(t, "get_brew")
    /\ Return(t, [loc[t] EXCEPT !.found = DictGet(brews, loc[t].key)])
    /\ UNCHANGED <<store_vars, resp, uuid, clock, deleted, born>>

\* delete_brew, lines 168-170: the membership test and `del self._brews[id]`
store_delete_brew(t) ==
    /\ InBody(t, "delete_brew")
    /\ IF ~Has(brews, loc[t].key)
       THEN Return(t, [loc[t] EXCEPT !.ok = FALSE]) /\ UNCHANGED brews
       ELSE /\ brews' = DictDel(brews, loc[t].key)
            /\ phase' = [phase EXCEPT ![t] = "cascade"]
            /\ UNCHANGED <<lock, pc, loc>>
    /\ UNCHANGED <<teapots, teas, steeps, resp, uuid, clock, deleted, born>>

\* the steeps dict delete_brew rebuilds, lines 172-174
KeepAllSteeps(id) == steeps
SteepsWithoutBrew(id) == SelectSeq(steeps, LAMBDA v : v.brew_id # id)

\* delete_brew, lines 171-175: the cascade and `return True`, still under the lock
store_delete_brew_cascade_all(t) ==
    /\ phase[t] = "cascade"
    /\ steeps' = <<>>
    /\ Return(t, [loc[t] EXCEPT !.ok = TRUE])
    /\ deleted' = deleted \cup {loc[t].key}
    /\ UNCHANGED <<teapots, teas, brews, resp, uuid, clock, born>>
store_delete_brew_cascade(t) ==
    /\ phase[t] = "cascade"
    /\ steeps' = SteepsWithoutBrew(loc[t].key)
    /\ Return(t, [loc[t] EXCEPT !.ok = TRUE])
    /\ deleted' = deleted \cup {loc[t].key}
    /\ UNCHANGED <<teapots, teas, brews, resp, uuid, clock, born>>

store_update_teapot(t) ==
    /\ InBody(t, "update_teapot")
    /\ teapots' = DictSet(teapots, Val(loc[t].ent))
    /\ Return(t, loc[t])
    /\ UNCHANGED <<teas, brews, steeps, resp, uuid, clock, deleted, born>>

store_update_tea(t) ==
    /\ InBody(t, "update_tea")
    /\ teas' = DictSet(teas, Val(loc[t].ent))
    /\ Return(t, loc[t])
    /\ UNCHANGED <<teapots, brews, steeps, resp, uuid, clock, deleted, born>>

\* an update_brew that drops the steeps of the brew it stores
store_update_brew_dropping_steeps(t) ==
    /\ InBody(t, "update_brew")
    /\ brews' = DictSet(brews, Val(loc[t].ent))
    /\ steeps' = SteepsWithoutBrew(Val(loc[t].ent).id)
    /\ Return(t, loc[t])
    /\ UNCHANGED <<teapots, teas, resp, uuid, clock, deleted, born>>
store_update_brew(t) ==
    /\ InBody(t, "update_brew")
    /\ brews' = DictSet(brews, Val(loc[t].ent))
    /\ Return(t, loc[t])
    /\ UNCHANGED <<teapots, teas, steeps, resp, uuid, clock, deleted, born>>

store_create_teapot(t) ==
    /\ InBody(t, "create_teapot")
    /\ teapots' = DictSet(teapots, Val(loc[t].ent))
    /\ Return(t, loc[t])
    /\ born' = Append(born, Born("teapot", Val(loc[t].ent)))
    /\ UNCHANGED <<teas, brews, steeps, resp, uuid, clock, deleted>>

store_list_teapots(t) ==
    /\ InBody(t, "list_teapots")
    /\ Return(t, [loc[t] EXCEPT !.items = ListTeapots(loc[t].data)[1],
                                !.total = ListTeapots(loc[t].data)[2]])
    /\ UNCHANGED <<store_vars, resp, uuid, clock, deleted, born>>

store_list_brews(t) ==
    /\ InBody(t, "list_brews")
    /\ Return(t, [loc[t] EXCEPT !.items = ListBrews(loc[t].data)[1],
                                !.total = ListBrews(loc[t].data)[2]])
    /\ UNCHANGED <<store_vars, resp, uuid, clock, deleted, born>>

store_list_brews_by_teapot(t) ==
    /\ InBody(t, "list_brews_by_teapot")
    /\ LET r == ListBrewsByTeapot(loc[t].key, loc[t].data)
       IN  Return(t, [loc[t] EXCEPT !.items = r[1], !.total = r[2]])
    /\ UNCHANGED <<store_vars, resp, uuid, clock, deleted, born>>

store_list_steeps_by_brew(t) ==
    /\ InBody(t, "list_steeps_by_brew")
    /\ LET r == ListSteepsByBrew(loc[t].key, QueryPage(loc[t].data), QueryLimit(loc[t].data))
       IN  Return(t, [loc[t] EXCEPT !.items = r[1], !.total = r[2]])
    /\ UNCHANGED <<store_vars, resp, uuid, clock, deleted, born>>

store_create_steep(t) ==
    /\ InBody(t, "create_steep")
    /\ steeps' = DictSet(steeps, Val(loc[t].ent))
    /\ Return(t, loc[t])
    /\ born' = Append(born, Born("steep", Val(loc[t].ent)))
    /\ UNCHANGED <<teapots, teas, brews, resp, uuid, clock, deleted>>

store_get_next_steep_number(t) ==
    /\ InBody(t, "get_next_steep_number")
    /\ Return(t, [loc[t] EXCEPT !.num = NextSteepNumber(loc[t].key)])
    /\ UNCHANGED <<store_vars, resp, uuid, clock, deleted, born>>

(***************************************************************************)
(* Request inputs.                                                         *)
(***************************************************************************)
\* the id in a request path: an id the collection holds, or 0, an id it does not
\* hold (a lookup treats every absent id alike)
PathIds(d) == {0} \cup Ids(d)

\* threads in a create handler that have not made their uuid4() call yet
BeforeUuid ==
    {"create_brew.get_teapot", "create_brew.check_teapot", "create_brew.get_tea",
     "create_brew.build", "create_steep.get_brew", "create_steep.validate",
     "create_steep.get_next_steep_number", "create_steep.build"}
\* a create request is taken only while ids are left for it
CanIssue == uuid + Cardinality({t \in Threads : pc[t] \in BeforeUuid}) < MaxId

\* POST /brews bodies: the seeded or an unknown teapot and tea, with and without
\* a water temperature, one out of range, and one without teapotId
CreateBrewBodies ==
    {[teapotId |-> Some(tp), teaId |-> Some(te)] : tp \in {0, 1}, te \in {0, 2}}
    \cup {[teapotId |-> Some(1), teaId |-> Some(2), waterTempCelsius |-> Some(w)] :
            w \in {75, 59}}
    \cup {[teaId |-> Some(2)]}

\* CreateBrewRequest.model_validate
ValidCreateBrewRequest(body) ==
    /\ Supplied(body, "teapotId") /\ body.teapotId # None
    /\ Supplied(body, "teaId") /\ body.teaId # None
    /\ LET w == Field(body, "waterTempCelsius", None)
       IN  w = None \/ (Val(w) >= 60 /\ Val(w) <= 100)

\* POST /brews/{id}/steeps bodies: a valid one and one with a zero duration
CreateSteepBodies ==
    {[durationSeconds |-> Some(30), rating |-> Some(5)], [durationSeconds |-> Some(0)]}

\* CreateSteepRequest.model_validate
ValidCreateSteepRequest(body) ==
    /\ Supplied(body, "durationSeconds") /\ body.durationSeconds # None
    /\ Val(body.durationSeconds) >= 1
    /\ LET r == Field(body, "rating", None)
       IN  r = None \/ (Val(r) >= 1 /\ Val(r) <= 5)

(***************************************************************************)
(* POST /brews                                                             *)
(***************************************************************************)
create_brew_begin(t) ==
    /\ \E body \in CreateBrewBodies :
         IF ~ValidCreateBrewRequest(body)
         THEN pc[t] = "idle"
              /\ Respond(t, 400, "VALIDATION_ERROR", "Invalid request body")
         ELSE CanIssue
              /\ Begin(t, "create_brew.get_teapot",
                       [Blank EXCEPT !.data = body, !.key = Val(body.teapotId)])
    /\ UNCHANGED <<store_vars, lock, uuid, clock, deleted, born>>

\* create_brew without the teapot check of lines 85-89
create_brew_skip_teapot_check(t) ==
    /\ At(t, "create_brew.check_teapot")
    /\ Call(t, "create_brew.get_tea", [loc[t] EXCEPT !.key = Val(loc[t].data.teaId)])
    /\ UNCHANGED <<store_vars, lock, uuid, clock, deleted, born>>
create_brew_check_teapot(t) ==
    /\ At(t, "create_brew.check_teapot")
    /\ IF loc[t].found = None
       THEN Respond(t, 400, "NOT_FOUND", "Teapot not found")
       ELSE Call(t, "create_brew.get_tea", [loc[t] EXCEPT !.key = Val(loc[t].data.teaId)])
    /\ UNCHANGED <<store_vars, lock, uuid, clock, deleted, born>>

\* the Brew built at lines 99-114, given the tea read and the clock
NewBrewAtTeaTemp(id, data, tea, now) ==
    [id |-> id, teapot_id |-> Val(data.teapotId), tea_id |-> Val(data.teaId),
     status |-> "preparing", water_temp_celsius |-> tea.steep_temp_celsius,
     notes |-> Field(data, "notes", None), started_at |-> now,
     completed_at |-> None, created_at |-> now, updated_at |-> now]
NewBrew(id, data, tea, now) ==
    LET w == Field(data, "waterTempCelsius", None)
    IN  [id |-> id, teapot_id |-> Val(data.teapotId), tea_id |-> Val(data.teaId),
         status |-> "preparing",
         water_temp_celsius |-> IF Truthy(w) THEN Val(w) ELSE tea.steep_temp_celsius,
         notes |-> Field(data, "notes", None), started_at |-> now,
         completed_at |-> None, created_at |-> now, updated_at |-> now]

create_brew_build(t) ==
    /\ At(t, "create_brew.build")
    /\ IF loc[t].found = None
       THEN Respond(t, 400, "NOT_FOUND", "Tea not found") /\ UNCHANGED uuid
       ELSE /\ uuid' = uuid + 1
            /\ Call(t, "create_brew.create_brew",
                    [loc[t] EXCEPT !.ent = Some(NewBrew(uuid + 1, loc[t].data, Val(loc[t].found), clock))])
    /\ UNCHANGED <<store_vars, lock, clock, deleted, born>>

create_brew_respond(t) ==
    /\ At(t, "create_brew.respond")
    /\ Respond(t, 201, "", "")
    /\ UNCHANGED <<store_vars, lock, uuid, clock, deleted, born>>

(***************************************************************************)
(* DELETE /brews/{id}, DELETE /teapots/{id}, DELETE /teas/{id}             *)
(***************************************************************************)
delete_brew_begin(t) ==
    /\ \E id \in PathIds(brews) :
         Begin(t, "delete_brew.delete_brew", [Blank EXCEPT !.id = id, !.key = id])
    /\ UNCHANGED <<store_vars, lock, uuid, clock, deleted, born>>

delete_brew_respond(t) ==
    /\ At(t, "delete_brew.respond")
    /\ IF ~loc[t].ok
       THEN Respond(t, 404, "NOT_FOUND", "Brew not found")
       ELSE Respond(t, 204, "", "")
    /\ UNCHANGED <<store_vars, lock, uuid, clock, deleted, born>>

delete_teapot_begin(t) ==
    /\ \E id \in PathIds(teapots) :
         Begin(t, "delete_teapot.delete_teapot", [Blank EXCEPT !.id = id, !.key = id])
    /\ UNCHANGED <<store_vars, lock, uuid, clock, deleted, born>>

delete_teapot_respond(t) ==
    /\ At(t, "delete_teapot.respond")
    /\ IF ~loc[t].ok
       THEN Respond(t, 404, "NOT_FOUND", "Teapot not found")
       ELSE Respond(t, 204, "", "")
    /\ UNCHANGED <<store_vars, lock, uuid, clock, deleted, born>>

delete_tea_begin(t) ==
    /\ \E id \in PathIds(teas) :
         Begin(t, "delete_tea.delete_tea", [Blank EXCEPT !.id = id, !.key = id])
    /\ UNCHANGED <<store_vars, lock, uuid, clock, deleted, born>>

delete_tea_respond(t) ==
    /\ At(t, "delete_tea.respond")
    /\ IF ~loc[t].ok
       THEN Respond(t, 404, "NOT_FOUND", "Tea not found")
       ELSE Respond(t, 204, "", "")
    /\ UNCHANGED <<store_vars, lock, uuid, clock, deleted, born>>

(***************************************************************************)
(* POST /brews/{brew_id}/steeps                                            *)
(***************************************************************************)
create_steep_begin(t) ==
    /\ CanIssue
    /\ \E id \in PathIds(brews) :
         Begin(t, "create_steep.get_brew", [Blank EXCEPT !.id = id, !.key = id])
    /\ UNCHANGED <<store_vars, lock, uuid, clock, deleted, born>>

create_steep_validate(t) ==
    /\ At(t, "create_steep.validate")
    /\ IF loc[t].found = None
       THEN Respond(t, 404, "NOT_FOUND", "Brew not found")
       ELSE \E body \in CreateSteepBodies :
              IF ~ValidCreateSteepRequest(body)
              THEN Respond(t, 400, "VALIDATION_ERROR", "Invalid request body")
              ELSE Call(t, "create_steep.get_next_steep_number",
                        [loc[t] EXCEPT !.data = body, !.now = clock, !.key = loc[t].id])
    /\ UNCHANGED <<store_vars, lock, uuid, clock, deleted, born>>

\* the Steep built at lines 284-292
NewSteep(id, brew_id, steep_number, data, now) ==
    [id |-> id, brew_id |-> brew_id, steep_number |-> steep_number,
     duration_seconds |-> Val(data.durationSeconds),
     rating |-> Field(data, "rating", None), notes |-> Field(data, "notes", None),
     created_at |-> now]

create_steep_build(t) ==
    /\ At(t, "create_steep.build")
    /\ uuid' = uuid + 1
    /\ Call(t, "create_steep.create_steep",
            [loc[t] EXCEPT !.ent = Some(NewSteep(uuid + 1, loc[t].id, loc[t].num,
                                                 loc[t].data, loc[t].now))])
    /\ UNCHANGED <<store_vars, lock, clock, deleted, born>>

create_steep_respond(t) ==
    /\ At(t, "create_steep.respond")
    /\ Respond(t, 201, "", "")
    /\ UNCHANGED <<store_vars, lock, uuid, clock, deleted, born>>

(***************************************************************************)
(* Field constraints of the entity and request schemas (app/schemas).      *)
(***************************************************************************)
TeapotMaterial == {"ceramic", "cast-iron", "glass", "porcelain", "clay", "stainless-steel"}
TeapotStyle == {"kyusu", "gaiwan", "english", "moroccan", "turkish", "yixing"}
TeaType == {"green", "black", "oolong", "white", "puerh", "herbal", "rooibos"}
CaffeineLevel == {"none", "low", "medium", "high"}
BrewStatus == {"preparing", "steeping", "ready", "served", "cold"}

LenIn(v, lo, hi) == Len(v) >= lo /\ Len(v) <= hi
In(v, lo, hi) == v >= lo /\ v <= hi

TeapotNameOk(v) == LenIn(v, 1, 100)
TeapotMaterialOk(v) == v \in TeapotMaterial
TeapotCapacityOk(v) == In(v, 1, 5000)
TeapotStyleOk(v) == v \in TeapotStyle
TeapotDescriptionOk(v) == LenIn(v, 0, 500)

\* Teapot.model_validate of the patchable fields d (each None or a value)
ValidTeapotData(d) ==
    /\ d.name # None /\ TeapotNameOk(Val(d.name))
    /\ d.material # None /\ TeapotMaterialOk(Val(d.material))
    /\ d.capacity_ml # None /\ TeapotCapacityOk(Val(d.capacity_ml))
    /\ d.style # None /\ TeapotStyleOk(Val(d.style))
    /\ (d.description = None \/ TeapotDescriptionOk(Val(d.description)))

\* UpdateTeapotRequest.model_validate
ValidUpdateTeapotRequest(body) ==
    /\ Supplied(body, "name") /\ body.name # None /\ TeapotNameOk(Val(body.name))
    /\ Supplied(body, "material") /\ body.material # None /\ TeapotMaterialOk(Val(body.material))
    /\ Supplied(body, "capacityMl") /\ body.capacityMl # None /\ TeapotCapacityOk(Val(body.capacityMl))
    /\ Supplied(body, "style") /\ body.style # None /\ TeapotStyleOk(Val(body.style))
    /\ (Field(body, "description", None) = None \/ TeapotDescriptionOk(Val(Field(body, "description", None))))

\* PatchTeapotRequest.model_validate: every field may be left out or null
ValidPatchTeapotRequest(body) ==
    /\ (Field(body, "name", None) = None \/ TeapotNameOk(Val(Field(body, "name", None))))
    /\ (Field(body, "material", None) = None \/ TeapotMaterialOk(Val(Field(body, "material", None))))
    /\ (Field(body, "capacityMl", None) = None \/ TeapotCapacityOk(Val(Field(body, "capacityMl", None))))
    /\ (Field(body, "style", None) = None \/ TeapotStyleOk(Val(Field(body, "style", None))))
    /\ (Field(body, "description", None) = None \/ TeapotDescriptionOk(Val(Field(body, "description", None))))

\* the Teapot entity with the patchable fields d
TeapotFromRestamped(id, d, created_at, updated_at) ==
    [id |-> id, name |-> Val(d.name), material |-> Val(d.material),
     capacity_ml |-> Val(d.capacity_ml), style |-> Val(d.style),
     description |-> d.description, created_at |-> updated_at,
     updated_at |-> updated_at]
TeapotFrom(id, d, created_at, updated_at) ==
    [id |-> id, name |-> Val(d.name), material |-> Val(d.material),
     capacity_ml |-> Val(d.capacity_ml), style |-> Val(d.style),
     description |-> d.description, created_at |-> created_at,
     updated_at |-> updated_at]

\* update_teapot, lines 148-157: the fields of the UpdateTeapotRequest
UpdateTeapotData(body) ==
    [name |-> body.name, material |-> body.material, capacity_ml |-> body.capacityMl,
     style |-> body.style, description |-> Field(body, "description", None)]

\* patch_teapot, lines 195-197: existing.model_dump() updated with the fields the
\* body sets (model_dump(exclude_unset=True))
PatchTeapotData(existing, body) ==
    [name |-> Field(body, "name", Some(existing.name)),
     material |-> Field(body, "material", Some(existing.material)),
     capacity_ml |-> Field(body, "capacityMl", Some(existing.capacity_ml)),
     style |-> Field(body, "style", Some(existing.style)),
     description |-> Field(body, "description", existing.description)]

TeaNameOk(v) == LenIn(v, 1, 100)
TeaTypeOk(v) == v \in TeaType
TeaOriginOk(v) == LenIn(v, 0, 100)
TeaCaffeineOk(v) == v \in CaffeineLevel
TeaTempOk(v) == In(v, 60, 100)
TeaTimeOk(v) == In(v, 1, 600)
TeaDescriptionOk(v) == LenIn(v, 0, 1000)

\* Tea.model_validate of the patchable fields d
ValidTeaData(d) ==
    /\ d.name # None /\ TeaNameOk(Val(d.name))
    /\ d.type # None /\ TeaTypeOk(Val(d.type))
    /\ (d.origin = None \/ TeaOriginOk(Val(d.origin)))
    /\ d.caffeine_level # None /\ TeaCaffeineOk(Val(d.caffeine_level))
    /\ d.steep_temp_celsius # None /\ TeaTempOk(Val(d.steep_temp_celsius))
    /\ d.steep_time_seconds # None /\ TeaTimeOk(Val(d.steep_time_seconds))
    /\ (d.description = None \/ TeaDescriptionOk(Val(d.description)))

\* UpdateTeaRequest.model_validate
ValidUpdateTeaRequest(body) ==
    /\ Supplied(body, "name") /\ body.name # None /\ TeaNameOk(Val(body.name))
    /\ Supplied(body, "type") /\ body.type # None /\ TeaTypeOk(Val(body.type))
    /\ (Field(body, "origin", None) = None \/ TeaOriginOk(Val(Field(body, "origin", None))))
    /\ Supplied(body, "caffeineLevel") /\ body.caffeineLevel # None /\ TeaCaffeineOk(Val(body.caffeineLevel))
    /\ Supplied(body, "steepTempCelsius") /\ body.steepTempCelsius # None /\ TeaTempOk(Val(body.steepTempCelsius))
    /\ Supplied(body, "steepTimeSeconds") /\ body.steepTimeSeconds # None /\ TeaTimeOk(Val(body.steepTimeSeconds))
    /\ (Field(body, "description", None) = None \/ TeaDescriptionOk(Val(Field(body, "description", None))))

\* PatchTeaRequest.model_validate
ValidPatchTeaRequest(body) ==
    /\ (Field(body, "name", None) = None \/ TeaNameOk(Val(Field(body, "name", None))))
    /\ (Field(body, "type", None) = None \/ TeaTypeOk(Val(Field(body, "type", None))))
    /\ (Field(body, "origin", None) = None \/ TeaOriginOk(Val(Field(body, "origin", None))))
    /\ (Field(body, "caffeineLevel", None) = None \/ TeaCaffeineOk(Val(Field(body, "caffeineLevel", None))))
    /\ (Field(body, "steepTempCelsius", None) = None \/ TeaTempOk(Val(Field(body, "steepTempCelsius", None))))
    /\ (Field(body, "steepTimeSeconds", None) = None \/ TeaTimeOk(Val(Field(body, "steepTimeSeconds", None))))
    /\ (Field(body, "description", None) = None \/ TeaDescriptionOk(Val(Field(body, "description", None))))

TeaFrom(id, d, created_at, updated_at) ==
    [id |-> id, name |-> Val(d.name), type |-> Val(d.type), origin |-> d.origin,
     caffeine_level |-> Val(d.caffeine_level),
     steep_temp_celsius |-> Val(d.steep_temp_celsius),
     steep_time_seconds |-> Val(d.steep_time_seconds),
     description |-> d.description, created_at |-> created_at,
     updated_at |-> updated_at]

\* update_tea, lines 149-160
UpdateTeaData(body) ==
    [name |-> body.name, type |-> body.type, origin |-> Field(body, "origin", None),
     caffeine_level |-> body.caffeineLevel,
     steep_temp_celsius |-> body.steepTempCelsius,
     steep_time_seconds |-> body.steepTimeSeconds,
     description |-> Field(body, "description", None)]

\* patch_tea, lines 198-200
PatchTeaData(existing, body) ==
    [name |-> Field(body, "name", Some(existing.name)),
     type |-> Field(body, "type", Some(existing.type)),
     origin |-> Field(body, "origin", existing.origin),
     caffeine_level |-> Field(body, "caffeineLevel", Some(existing.caffeine_level)),
     steep_temp_celsius |-> Field(body, "steepTempCelsius", Some(existing.steep_temp_celsius)),
     steep_time_seconds |-> Field(body, "steepTimeSeconds", Some(existing.steep_time_seconds)),
     description |-> Field(body, "description", existing.description)]

BrewStatusOk(v) == v \in BrewStatus
BrewNotesOk(v) == LenIn(v, 0, 500)
BrewCompletedAtOk(v) == v \in Nat

\* PatchBrewRequest.model_validate
ValidPatchBrewRequest(body) ==
    /\ (Field(body, "status", None) = None \/ BrewStatusOk(Val(Field(body, "status", None))))
    /\ (Field(body, "notes", None) = None \/ BrewNotesOk(Val(Field(body, "notes", None))))
    /\ (Field(body, "completedAt", None) = None \/ BrewCompletedAtOk(Val(Field(body, "completedAt", None))))

\* patch_brew, lines 173-175: the fields a PatchBrewRequest can set
PatchBrewData(existing, body) ==
    [status |-> Field(body, "status", Some(existing.status)),
     notes |-> Field(body, "notes", existing.notes),
     completed_at |-> Field(body, "completedAt", existing.completed_at)]

\* Brew.model_validate of the merged fields: the others come from a valid Brew
ValidBrewData(d) ==
    /\ d.status # None /\ BrewStatusOk(Val(d.status))
    /\ (d.notes = None \/ BrewNotesOk(Val(d.notes)))
    /\ (d.completed_at = None \/ BrewCompletedAtOk(Val(d.completed_at)))

\* patch_brew, lines 174-178: the existing brew with the merged fields
BrewFrom(existing, d, updated_at) ==
    [existing EXCEPT !.status = Val(d.status), !.notes = d.notes,
                     !.completed_at = d.completed_at, !.updated_at = updated_at]

(***************************************************************************)
(* PUT and PATCH bodies.                                                   *)
(***************************************************************************)
\* PUT /teapots/{id}: a full body, one that also carries an id and a createdAt,
\* and one without the required fields
UpdateTeapotBodies ==
    {[name |-> Some("samovar"), material |-> Some("glass"), capacityMl |-> Some(900),
      style |-> Some("turkish")],
     [id |-> Some(9), createdAt |-> Some(1), name |-> Some("samovar"),
      material |-> Some("glass"), capacityMl |-> Some(900), style |-> Some("turkish")],
     [name |-> Some("samovar")]}

\* PATCH /teapots/{id}: one field each, a null description, a null name, a
\* capacity out of range, and a body that carries an id and a createdAt
PatchTeapotBodies ==
    {[name |-> Some("kettle")], [description |-> Some("gift")], [description |-> None],
     [name |-> None], [capacityMl |-> Some(0)],
     [id |-> Some(9), createdAt |-> Some(1), name |-> Some("kettle")]}

UpdateTeaBodies ==
    {[name |-> Some("assam"), type |-> Some("black"), caffeineLevel |-> Some("high"),
      steepTempCelsius |-> Some(95), steepTimeSeconds |-> Some(240)],
     [id |-> Some(9), createdAt |-> Some(1), name |-> Some("assam"),
      type |-> Some("black"), caffeineLevel |-> Some("high"),
      steepTempCelsius |-> Some(95), steepTimeSeconds |-> Some(240)],
     [name |-> Some("assam")]}

PatchTeaBodies ==
    {[steepTempCelsius |-> Some(90)], [origin |-> Some("uji")], [origin |-> None],
     [type |-> None], [steepTimeSeconds |-> Some(601)],
     [id |-> Some(9), createdAt |-> Some(1), steepTempCelsius |-> Some(90)]}

PatchBrewBodies ==
    {[status |-> Some("steeping")], [notes |-> Some("strong")], [notes |-> None],
     [status |-> None], [status |-> Some("boiling")],
     [id |-> Some(9), createdAt |-> Some(1), teapotId |-> Some(9), teaId |-> Some(9),
      waterTempCelsius |-> Some(99), startedAt |-> Some(1), status |-> Some("steeping")]}

(***************************************************************************)
(* PUT /teapots/{id}, PATCH /teapots/{id}                                  *)
(***************************************************************************)
update_teapot_begin(t) ==
    /\ \E id \in PathIds(teapots) :
         Begin(t, "update_teapot.get_teapot", [Blank EXCEPT !.id = id, !.key = id])
    /\ UNCHANGED <<store_vars, lock, uuid, clock, deleted, born>>

\* an update_teapot that validates the body before it looks at the lookup's result
update_teapot_build_validate_first(t) ==
    /\ At(t, "update_teapot.build")
    /\ \E body \in UpdateTeapotBodies :
         IF ~ValidUpdateTeapotRequest(body)
         THEN Respond(t, 400, "VALIDATION_ERROR", "Invalid request body")
         ELSE IF loc[t].found = None
         THEN Respond(t, 404, "NOT_FOUND", "Teapot not found")
         ELSE Call(t, "update_teapot.update_teapot",
                   [loc[t] EXCEPT !.data = body,
                       !.ent = Some(TeapotFrom(loc[t].id, UpdateTeapotData(body),
                                               Val(loc[t].found).created_at, clock))])
    /\ UNCHANGED <<store_vars, lock, uuid, clock, deleted, born>>
update_teapot_build(t) ==
    /\ At(t, "update_teapot.build")
    /\ IF loc[t].found = None
       THEN Respond(t, 404, "NOT_FOUND", "Teapot not found")
       ELSE \E body \in UpdateTeapotBodies :
              IF ~ValidUpdateTeapotRequest(body)
              THEN Respond(t, 400, "VALIDATION_ERROR", "Invalid request body")
              ELSE Call(t, "update_teapot.update_teapot",
                        [loc[t] EXCEPT !.data = body,
                            !.ent = Some(TeapotFrom(loc[t].id, UpdateTeapotData(body),
                                                    Val(loc[t].found).created_at, clock))])
    /\ UNCHANGED <<store_vars, lock, uuid, clock, deleted, born>>

update_teapot_respond(t) ==
    /\ At(t, "update_teapot.respond")
    /\ Respond(t, 200, "", "")
    /\ UNCHANGED <<store_vars, lock, uuid, clock, deleted, born>>

patch_teapot_begin(t) ==
    /\ \E id \in PathIds(teapots) :
         Begin(t, "patch_teapot.get_teapot", [Blank EXCEPT !.id = id, !.key = id])
    /\ UNCHANGED <<store_vars, lock, uuid, clock, deleted, born>>

\* lines 179-200: an invalid body is answered 400; a merged record that
\* Teapot.model_validate rejects raises out of the handler, which Flask answers 500
patch_teapot_merge(t) ==
    /\ At(t, "patch_teapot.merge")
    /\ IF loc[t].found = None
       THEN Respond(t, 404, "NOT_FOUND", "Teapot not found")
       ELSE \E body \in PatchTeapotBodies :
              LET existing == Val(loc[t].found)
                  teapot_data == PatchTeapotData(existing, body)
              IN  IF ~ValidPatchTeapotRequest(body)
                  THEN Respond(t, 400, "VALIDATION_ERROR", "Invalid request body")
                  ELSE IF ~ValidTeapotData(teapot_data)
                  THEN Respond(t, 500, "INTERNAL_ERROR", "An unexpected error occurred")
                  ELSE Call(t, "patch_teapot.update_teapot",
                            [loc[t] EXCEPT !.data = body,
                                !.ent = Some(TeapotFrom(existing.id, teapot_data,
                                                        existing.created_at, clock))])
    /\ UNCHANGED <<store_vars, lock, uuid, clock, deleted, born>>

patch_teapot_respond(t) ==
    /\ At(t, "patch_teapot.respond")
    /\ Respond(t, 200, "", "")
    /\ UNCHANGED <<store_vars, lock, uuid, clock, deleted, born>>

(***************************************************************************)
(* PUT /teas/{id}, PATCH /teas/{id}                                        *)
(***************************************************************************)
update_tea_begin(t) ==
    /\ \E id \in PathIds(teas) :
         Begin(t, "update_tea.get_tea", [Blank EXCEPT !.id = id, !.key = id])
    /\ UNCHANGED <<store_vars, lock, uuid, clock, deleted, born>>

update_tea_build(t) ==
    /\ At(t, "update_tea.build")
    /\ IF loc[t].found = None
       THEN Respond(t, 404, "NOT_FOUND", "Tea not found")
       ELSE \E body \in UpdateTeaBodies :
              IF ~ValidUpdateTeaRequest(body)
              THEN Respond(t, 400, "VALIDATION_ERROR", "Invalid request body")
              ELSE Call(t, "update_tea.update_tea",
                        [loc[t] EXCEPT !.data = body,
                            !.ent = Some(TeaFrom(loc[t].id, UpdateTeaData(body),
                                                 Val(loc[t].found).created_at, clock))])
    /\ UNCHANGED <<store_vars, lock, uuid, clock, deleted, born>>

update_tea_respond(t) ==
    /\ At(t, "update_tea.respond")
    /\ Respond(t, 200, "", "")
    /\ UNCHANGED <<store_vars, lock, uuid, clock, deleted, born>>

patch_tea_begin(t) ==
    /\ \E id \in PathIds(teas) :
         Begin(t, "patch_tea.get_tea", [Blank EXCEPT !.id = id, !.key = id])
    /\ UNCHANGED <<store_vars, lock, uuid, clock, deleted, born>>

patch_tea_merge(t) ==
    /\ At(t, "patch_tea.merge")
    /\ IF loc[t].found = None
       THEN Respond(t, 404, "NOT_FOUND", "Tea not found")
       ELSE \E body \in PatchTeaBodies :
              LET existing == Val(loc[t].found)
                  tea_data == PatchTeaData(existing, body)
              IN  IF ~ValidPatchTeaRequest(body)
                  THEN Respond(t, 400, "VALIDATION_ERROR", "Invalid request body")
                  ELSE IF ~ValidTeaData(tea_data)
                  THEN Respond(t, 500, "INTERNAL_ERROR", "An unexpected error occurred")
                  ELSE Call(t, "patch_tea.update_tea",
                            [loc[t] EXCEPT !.data = body,
                                !.ent = Some(TeaFrom(existing.id, tea_data,
                                                     existing.created_at, clock))])
    /\ UNCHANGED <<store_vars, lock, uuid, clock, deleted, born>>

patch_tea_respond(t) ==
    /\ At(t, "patch_tea.respond")
    /\ Respond(t, 200, "", "")
    /\ UNCHANGED <<store_vars, lock, uuid, clock, deleted, born>>

(***************************************************************************)
(* PATCH /brews/{id}                                                       *)
(***************************************************************************)
patch_brew_begin(t) ==
    /\ \E id \in PathIds(brews) :
         Begin(t, "patch_brew.get_brew", [Blank EXCEPT !.id = id, !.key = id])
    /\ UNCHANGED <<store_vars, lock, uuid, clock, deleted, born>>

patch_brew_merge(t) ==
    /\ At(t, "patch_brew.merge")
    /\ IF loc[t].found = None
       THEN Respond(t, 404, "NOT_FOUND", "Brew not found")
       ELSE \E body \in PatchBrewBodies :
              LET existing == Val(loc[t].found)
                  brew_data == PatchBrewData(existing, body)
              IN  IF ~ValidPatchBrewRequest(body)
                  THEN Respond(t, 400, "VALIDATION_ERROR", "Invalid request body")
                  ELSE IF ~ValidBrewData(brew_data)
                  THEN Respond(t, 500, "INTERNAL_ERROR", "An unexpected error occurred")
                  ELSE Call(t, "patch_brew.update_brew",
                            [loc[t] EXCEPT !.data = body,
                                !.ent = Some(BrewFrom(existing, brew_data, clock))])
    /\ UNCHANGED <<store_vars, lock, uuid, clock, deleted, born>>

patch_brew_respond(t) ==
    /\ At(t, "patch_brew.respond")
    /\ Respond(t, 200, "", "")
    /\ UNCHANGED <<store_vars, lock, uuid, clock, deleted, born>>

(***************************************************************************)
(* POST /teapots, GET /teapots                                             *)
(***************************************************************************)
\* POST /teapots bodies: one without a style (the default applies), one with
\* every field, and one with an empty name
CreateTeapotBodies ==
    {[name |-> Some("flask"), material |-> Some("glass"), capacityMl |-> Some(900)],
     [name |-> Some("kyusu"), material |-> Some("ceramic"), capacityMl |-> Some(300),
      style |-> Some("kyusu"), description |-> Some("gift")],
     [name |-> Some(""), material |-> Some("glass"), capacityMl |-> Some(900)]}

\* CreateTeapotRequest.model_validate
ValidCreateTeapotRequest(body) ==
    /\ Supplied(body, "name") /\ body.name # None /\ TeapotNameOk(Val(body.name))
    /\ Supplied(body, "material") /\ body.material # None /\ TeapotMaterialOk(Val(body.material))
    /\ Supplied(body, "capacityMl") /\ body.capacityMl # None /\ TeapotCapacityOk(Val(body.capacityMl))
    /\ Supplied(body, "style") => (body.style # None /\ TeapotStyleOk(Val(body.style)))
    /\ (Field(body, "description", None) = None \/ TeapotDescriptionOk(Val(Field(body, "description", None))))

\* create_teapot, lines 80-90: the Teapot built from the validated body
NewTeapotFixedId(id, data, now) ==
    [id |-> 1, name |-> Val(data.name), material |-> Val(data.material),
     capacity_ml |-> Val(data.capacityMl),
     style |-> Val(Field(data, "style", Some("english"))),
     description |-> Field(data, "description", None),
     created_at |-> now, updated_at |-> now]
NewTeapot(id, data, now) ==
    [id |-> id, name |-> Val(data.name), material |-> Val(data.material),
     capacity_ml |-> Val(data.capacityMl),
     style |-> Val(Field(data, "style", Some("english"))),
     description |-> Field(data, "description", None),
     created_at |-> now, updated_at |-> now]

create_teapot_begin(t) ==
    /\ \E body \in CreateTeapotBodies :
         IF ~ValidCreateTeapotRequest(body)
         THEN pc[t] = "idle"
              /\ Respond(t, 400, "VALIDATION_ERROR", "Invalid request body")
              /\ UNCHANGED uuid
         ELSE /\ CanIssue
              /\ uuid' = uuid + 1
              /\ Begin(t, "create_teapot.create_teapot",
                       [Blank EXCEPT !.data = body,
                                     !.ent = Some(NewTeapot(uuid + 1, body, clock))])
    /\ UNCHANGED <<store_vars, lock, clock, deleted, born>>

create_teapot_respond(t) ==
    /\ At(t, "create_teapot.respond")
    /\ Respond(t, 201, "", "")
    /\ UNCHANGED <<store_vars, lock, uuid, clock, deleted, born>>

\* GET /teapots query strings: none, a material, a material and a style, pages
\* of one and of two, and a page number below 1
ListTeapotQueries ==
    {NoBody,
     [material |-> Some("ceramic")],
     [material |-> Some("ceramic"), style |-> Some("english")],
     [page |-> Some(2), limit |-> Some(1)],
     [page |-> Some(2), limit |-> Some(2)],
     [page |-> Some(0)]}

\* TeapotQuery(**request.args.to_dict())
ValidTeapotQuery(query) ==
    /\ QueryPage(query) >= 1
    /\ In(QueryLimit(query), 1, 100)
    /\ Supplied(query, "material") => TeapotMaterialOk(Val(query.material))
    /\ Supplied(query, "style") => TeapotStyleOk(Val(query.style))

\* list_teapots, lines 39-49, for a query string out of the set queries
list_teapots_request(t, queries) ==
    /\ \E query \in queries :
         IF ~ValidTeapotQuery(query)
         THEN pc[t] = "idle"
              /\ Respond(t, 400, "VALIDATION_ERROR", "Invalid query parameters")
         ELSE Begin(t, "list_teapots.list_teapots", [Blank EXCEPT !.data = query])
    /\ UNCHANGED <<store_vars, lock, uuid, clock, deleted, born>>

list_teapots_begin(t) == list_teapots_request(t, ListTeapotQueries)

\* GET /teapots query strings that page through the collection: pages of one,
\* two and three items, pages past the end, the default and the largest limit,
\* a filter with a page, and limits outside 1..100
PagedTeapotQueries ==
    {NoBody,
     [limit |-> Some(1)],
     [page |-> Some(3), limit |-> Some(1)],
     [page |-> Some(6), limit |-> Some(1)],
     [limit |-> Some(2)],
     [page |-> Some(2), limit |-> Some(2)],
     [page |-> Some(3), limit |-> Some(2)],
     [page |-> Some(4), limit |-> Some(2)],
     [page |-> Some(2), limit |-> Some(3)],
     [limit |-> Some(100)],
     [material |-> Some("glass"), page |-> Some(2), limit |-> Some(1)],
     [material |-> Some("clay")],
     [limit |-> Some(0)],
     [limit |-> Some(101)]}

list_teapots_paged_begin(t) == list_teapots_request(t, PagedTeapotQueries)

\* GET /teapots with no query string
list_teapots_all_begin(t) == list_teapots_request(t, {NoBody})

list_teapots_respond(t) ==
    /\ At(t, "list_teapots.respond")
    /\ RespondList(t, loc[t].items, loc[t].data, loc[t].total)
    /\ UNCHANGED <<store_vars, lock, uuid, clock, deleted, born>>

\* GET /brews query strings: none, each filter alone, filters together, an id
\* no brew has, `?teapotId=` and `?teaId=` (the empty string), a status that is
\* no BrewStatus
ListBrewQueries ==
    {NoBody,
     [status |-> Some("steeping")],
     [teapotId |-> Some(1)],
     [teaId |-> Some(2)],
     [status |-> Some("preparing"), teapotId |-> Some(1), teaId |-> Some(2)],
     [status |-> Some("preparing"), teapotId |-> Some(4)],
     [teapotId |-> Some(4)],
     [teapotId |-> Some(0)],
     [teaId |-> Some(0)],
     [status |-> Some("")]}

\* BrewQuery(**request.args.to_dict()): teapotId and teaId take any string
ValidBrewQuery(query) ==
    /\ QueryPage(query) >= 1
    /\ In(QueryLimit(query), 1, 100)
    /\ Supplied(query, "status") => BrewStatusOk(Val(query.status))

list_brews_begin(t) ==
    /\ \E query \in ListBrewQueries :
         IF ~ValidBrewQuery(query)
         THEN pc[t] = "idle"
              /\ Respond(t, 400, "VALIDATION_ERROR", "Invalid query parameters")
         ELSE Begin(t, "list_brews.list_brews", [Blank EXCEPT !.data = query])
    /\ UNCHANGED <<store_vars, lock, uuid, clock, deleted, born>>

list_brews_respond(t) ==
    /\ At(t, "list_brews.respond")
    /\ RespondList(t, loc[t].items, loc[t].data, loc[t].total)
    /\ UNCHANGED <<store_vars, lock, uuid, clock, deleted, born>>

\* query strings of the handlers that take a PaginationQuery: none, pages of one
\* and of two items, a page past the end, and a page number below 1
PaginationQueries ==
    {NoBody,
     [limit |-> Some(1)],
     [page |-> Some(2), limit |-> Some(1)],
     [page |-> Some(2), limit |-> Some(2)],
     [page |-> Some(4), limit |-> Some(2)],
     [page |-> Some(0)]}

\* PaginationQuery(**request.args.to_dict())
ValidPaginationQuery(query) ==
    /\ QueryPage(query) >= 1
    /\ In(QueryLimit(query), 1, 100)

(***************************************************************************)
(* GET /teapots/{id}, GET /teas/{id}, GET /brews/{id}                      *)
(***************************************************************************)
get_teapot_begin(t) ==
    /\ \E id \in PathIds(teapots) :
         Begin(t, "get_teapot.get_teapot", [Blank EXCEPT !.id = id, !.key = id])
    /\ UNCHANGED <<store_vars, lock, uuid, clock, deleted, born>>

get_teapot_respond(t) ==
    /\ At(t, "get_teapot.respond")
    /\ IF loc[t].found = None
       THEN Respond(t, 404, "NOT_FOUND", "Teapot not found")
       ELSE RespondEntity(t, Val(loc[t].found))
    /\ UNCHANGED <<store_vars, lock, uuid, clock, deleted, born>>

get_tea_begin(t) ==
    /\ \E id \in PathIds(teas) :
         Begin(t, "get_tea.get_tea", [Blank EXCEPT !.id = id, !.key = id])
    /\ UNCHANGED <<store_vars, lock, uuid, clock, deleted, born>>

get_tea_respond(t) ==
    /\ At(t, "get_tea.respond")
    /\ IF loc[t].found = None
       THEN Respond(t, 404, "NOT_FOUND", "Tea not found")
       ELSE RespondEntity(t, Val(loc[t].found))
    /\ UNCHANGED <<store_vars, lock, uuid, clock, deleted, born>>

get_brew_begin(t) ==
    /\ \E id \in PathIds(brews) :
         Begin(t, "get_brew.get_brew", [Blank EXCEPT !.id = id, !.key = id])
    /\ UNCHANGED <<store_vars, lock, uuid, clock, deleted, born>>

get_brew_respond(t) ==
    /\ At(t, "get_brew.respond")
    /\ IF loc[t].found = None
       THEN Respond(t, 404, "NOT_FOUND", "Brew not found")
       ELSE RespondEntity(t, Val(loc[t].found))
    /\ UNCHANGED <<store_vars, lock, uuid, clock, deleted, born>>

(***************************************************************************)
(* GET /teapots/{id}/brews                                                 *)
(***************************************************************************)
list_teapot_brews_begin(t) ==
    /\ \E id \in PathIds(teapots) :
         Begin(t, "list_teapot_brews.get_teapot", [Blank EXCEPT !.id = id, !.key = id])
    /\ UNCHANGED <<store_vars, lock, uuid, clock, deleted, born>>

list_teapot_brews_validate(t) ==
    /\ At(t, "list_teapot_brews.validate")
    /\ IF loc[t].found = None
       THEN Respond(t, 404, "NOT_FOUND", "Teapot not found")
       ELSE \E query \in PaginationQueries :
              IF ~ValidPaginationQuery(query)
              THEN Respond(t, 400, "VALIDATION_ERROR", "Invalid query parameters")
              ELSE Call(t, "list_teapot_brews.list_brews_by_teapot",
                        [loc[t] EXCEPT !.data = query, !.key = loc[t].id])
    /\ UNCHANGED <<store_vars, lock, uuid, clock, deleted, born>>

list_teapot_brews_respond(t) ==
    /\ At(t, "list_teapot_brews.respond")
    /\ RespondList(t, loc[t].items, loc[t].data, loc[t].total)
    /\ UNCHANGED <<store_vars, lock, uuid, clock, deleted, born>>

(***************************************************************************)
(* GET /brews/{id}/steeps                                                  *)
(***************************************************************************)
list_steeps_begin(t) ==
    /\ \E id \in PathIds(brews) :
         Begin(t, "list_steeps.get_brew", [Blank EXCEPT !.id = id, !.key = id])
    /\ UNCHANGED <<store_vars, lock, uuid, clock, deleted, born>>

list_steeps_validate(t) ==
    /\ At(t, "list_steeps.validate")
    /\ IF loc[t].found = None
       THEN Respond(t, 404, "NOT_FOUND", "Brew not found")
       ELSE \E query \in PaginationQueries :
              IF ~ValidPaginationQuery(query)
              THEN Respond(t, 400, "VALIDATION_ERROR", "Invalid query parameters")
              ELSE Call(t, "list_steeps.list_steeps_by_brew",
                        [loc[t] EXCEPT !.data = query, !.key = loc[t].id])
    /\ UNCHANGED <<store_vars, lock, uuid, clock, deleted, born>>

list_steeps_respond(t) ==
    /\ At(t, "list_steeps.respond")
    /\ RespondList(t, loc[t].items, loc[t].data, loc[t].total)
    /\ UNCHANGED <<store_vars, lock, uuid, clock, deleted, born>>


(* concurrent threads, from a store that holds one teapot, one tea and one *)
(* brew (the state after three create requests).                           *)
(***************************************************************************)
Init ==
    /\ teapots = <<SeedTeapot>>
    /\ teas = <<SeedTea>>
    /\ brews = <<SeedBrew>>
    /\ steeps = <<>>
    /\ lock = 0
    /\ pc = [t \in Threads |-> "idle"]
    /\ phase = [t \in Threads |-> "local"]
    /\ loc = [t \in Threads |-> Blank]
    /\ resp = [t \in Threads |-> NoResp]
    /\ uuid = 3
    /\ clock = 0
    /\ deleted = {}
    /\ born = <<Born("teapot", SeedTeapot), Born("tea", SeedTea), Born("brew", SeedBrew)>>

Next ==
    \/ \E t \in Threads : Acquire(t)
    \/ \E t \in Threads : store_get_brew(t)
    \/ \E t \in Threads : store_delete_brew(t)
    \/ \E t \in Threads : store_delete_brew_cascade(t)
    \/ \E t \in Threads : store_create_steep(t)
    \/ \E t \in Threads : store_get_next_steep_number(t)
    \/ \E t \in Threads : delete_brew_begin(t)
    \/ \E t \in Threads : delete_brew_respond(t)
    \/ \E t \in Threads : create_steep_begin(t)
    \/ \E t \in Threads : create_steep_validate(t)
    \/ \E t \in Threads : create_steep_build(t)
    \/ \E t \in Threads : create_steep_respond(t)

Spec == Init /\ [][Next]_vars

(***************************************************************************)
(* SpecBrew: POST /brews, DELETE /teapots/{id} and DELETE /teas/{id}       *)
(* served by concurrent threads, from a store that holds one teapot and    *)
(* one tea.                                                                *)
(***************************************************************************)
InitBrew ==
    /\ teapots = <<SeedTeapot>>
    /\ teas = <<SeedTea>>
    /\ brews = <<>>
    /\ steeps = <<>>
    /\ lock = 0
    /\ pc = [t \in Threads |-> "idle"]
    /\ phase = [t \in Threads |-> "local"]
    /\ loc = [t \in Threads |-> Blank]
    /\ resp = [t \in Threads |-> NoResp]
    /\ uuid = 3
    /\ clock = 0
    /\ deleted = {}
    /\ born = <<Born("teapot", SeedTeapot), Born("tea", SeedTea)>>

NextBrew ==
    \/ \E t \in Threads : Acquire(t)
    \/ \E t \in Threads : store_get_teapot(t)
    \/ \E t \in Threads : store_delete_teapot(t)
    \/ \E t \in Threads : store_get_tea(t)
    \/ \E t \in Threads : store_delete_tea(t)
    \/ \E t \in Threads : store_create_brew(t)
    \/ \E t \in Threads : create_brew_begin(t)
    \/ \E t \in Threads : create_brew_check_teapot(t)
    \/ \E t \in Threads : create_brew_build(t)
    \/ \E t \in Threads : create_brew_respond(t)
    \/ \E t \in Threads : delete_teapot_begin(t)
    \/ \E t \in Threads : delete_teapot_respond(t)
    \/ \E t \in Threads : delete_tea_begin(t)
    \/ \E t \in Threads : delete_tea_respond(t)

SpecBrew == InitBrew /\ [][NextBrew]_vars

(***************************************************************************)
(* Time passes: datetime.now(timezone.utc) reads a clock that does not go  *)
(* back.  Two readings with no Tick between them are equal.                *)
(***************************************************************************)
Tick ==
    /\ clock < MaxClock
    /\ clock' = clock + 1
    /\ UNCHANGED <<store_vars, lock, pc, phase, loc, resp, uuid, deleted, born>>

(***************************************************************************)
(* SpecTeapot, SpecTea, SpecPatchBrew: PUT, PATCH and DELETE of one kind   *)
(* of entity served by concurrent threads, from the store of Init.  The    *)
(* store methods of one kind touch only that kind's dict, so the kinds     *)
(* are explored one at a time.                                             *)
(***************************************************************************)
NextTeapot ==
    \/ \E t \in Threads : Acquire(t)
    \/ \E t \in Threads : store_get_teapot(t)
    \/ \E t \in Threads : store_update_teapot(t)
    \/ \E t \in Threads : store_delete_teapot(t)
    \/ \E t \in Threads : update_teapot_begin(t)
    \/ \E t \in Threads : update_teapot_build(t)
    \/ \E t \in Threads : update_teapot_respond(t)
    \/ \E t \in Threads : patch_teapot_begin(t)
    \/ \E t \in Threads : patch_teapot_merge(t)
    \/ \E t \in Threads : patch_teapot_respond(t)
    \/ \E t \in Threads : delete_teapot_begin(t)
    \/ \E t \in Threads : delete_teapot_respond(t)

SpecTeapot == Init /\ [][NextTeapot]_vars

NextTea ==
    \/ \E t \in Threads : Acquire(t)
    \/ \E t \in Threads : store_get_tea(t)
    \/ \E t \in Threads : store_update_tea(t)
    \/ \E t \in Threads : store_delete_tea(t)
    \/ \E t \in Threads : update_tea_begin(t)
    \/ \E t \in Threads : update_tea_build(t)
    \/ \E t \in Threads : update_tea_respond(t)
    \/ \E t \in Threads : patch_tea_begin(t)
    \/ \E t \in Threads : patch_tea_merge(t)
    \/ \E t \in Threads : patch_tea_respond(t)
    \/ \E t \in Threads : delete_tea_begin(t)
    \/ \E t \in Threads : delete_tea_respond(t)

SpecTea == Init /\ [][NextTea]_vars

NextPatchBrew ==
    \/ \E t \in Threads : Acquire(t)
    \/ \E t \in Threads : store_get_brew(t)
    \/ \E t \in Threads : store_update_brew(t)
    \/ \E t \in Threads : store_delete_brew(t)
    \/ \E t \in Threads : store_delete_brew_cascade(t)
    \/ \E t \in Threads : patch_brew_begin(t)
    \/ \E t \in Threads : patch_brew_merge(t)
    \/ \E t \in Threads : patch_brew_respond(t)
    \/ \E t \in Threads : delete_brew_begin(t)
    \/ \E t \in Threads : delete_brew_respond(t)

SpecPatchBrew == Init /\ [][NextPatchBrew]_vars

(***************************************************************************)
(* SpecTeapotClock: SpecTeapot with the clock running.                     *)
(***************************************************************************)
NextTeapotClock ==
    \/ Tick
    \/ NextTeapot

SpecTeapotClock == Init /\ [][NextTeapotClock]_vars

(***************************************************************************)
(* SpecTeapotList: POST, GET (list) and DELETE of teapots served by        *)
(* concurrent threads, from the store of Init.                             *)
(***************************************************************************)
NextTeapotList ==
    \/ \E t \in Threads : Acquire(t)
    \/ \E t \in Threads : store_create_teapot(t)
    \/ \E t \in Threads : store_list_teapots(t)
    \/ \E t \in Threads : store_delete_teapot(t)
    \/ \E t \in Threads : create_teapot_begin(t)
    \/ \E t \in Threads : create_teapot_respond(t)
    \/ \E t \in Threads : list_teapots_begin(t)
    \/ \E t \in Threads : list_teapots_respond(t)
    \/ \E t \in Threads : delete_teapot_begin(t)
    \/ \E t \in Threads : delete_teapot_respond(t)

SpecTeapotList == Init /\ [][NextTeapotList]_vars

(***************************************************************************)
(* SpecBrewList: GET /brews served next to PATCH and DELETE of brews, from *)
(* the store of Init.                                                      *)
(***************************************************************************)
NextBrewList ==
    \/ \E t \in Threads : list_brews_begin(t)
    \/ \E t \in Threads : store_list_brews(t)
    \/ \E t \in Threads : list_brews_respond(t)
    \/ NextPatchBrew

SpecBrewList == Init /\ [][NextBrewList]_vars

(***************************************************************************)
(* SpecPages: GET /teapots paging through a store that holds from no       *)
(* teapot up to MaxId teapots, the state after that many POST /teapots.    *)
(***************************************************************************)
\* the body of the i-th POST /teapots: the two valid bodies in turn
CreatedTeapotBody(i) ==
    IF i % 2 = 1
    THEN [name |-> Some("flask"), material |-> Some("glass"), capacityMl |-> Some(900)]
    ELSE [name |-> Some("kyusu"), material |-> Some("ceramic"), capacityMl |-> Some(300),
          style |-> Some("kyusu"), description |-> Some("gift")]

InitPages ==
    /\ \E n \in 0..MaxId :
         /\ teapots = [i \in 1..n |-> NewTeapot(i, CreatedTeapotBody(i), 0)]
         /\ born = [i \in 1..n |-> Born("teapot", NewTeapot(i, CreatedTeapotBody(i), 0))]
         /\ uuid = n
    /\ teas = <<>>
    /\ brews = <<>>
    /\ steeps = <<>>
    /\ lock = 0
    /\ pc = [t \in Threads |-> "idle"]
    /\ phase = [t \in Threads |-> "local"]
    /\ loc = [t \in Threads |-> Blank]
    /\ resp = [t \in Threads |-> NoResp]
    /\ clock = 0
    /\ deleted = {}

NextPages ==
    \/ \E t \in Threads : Acquire(t)
    \/ \E t \in Threads : store_list_teapots(t)
    \/ \E t \in Threads : list_teapots_paged_begin(t)
    \/ \E t \in Threads : list_teapots_respond(t)

SpecPages == InitPages /\ [][NextPages]_vars

(***************************************************************************)
(* SpecOrder: GET /teapots served next to PATCH and DELETE of teapots,     *)
(* from a store that holds two teapots (the state after two POST           *)
(* /teapots).                                                              *)
(***************************************************************************)
InitOrder ==
    /\ teapots = [i \in 1..2 |-> NewTeapot(i, CreatedTeapotBody(i), 0)]
    /\ born = [i \in 1..2 |-> Born("teapot", NewTeapot(i, CreatedTeapotBody(i), 0))]
    /\ uuid = 2
    /\ teas = <<>>
    /\ brews = <<>>
    /\ steeps = <<>>
    /\ lock = 0
    /\ pc = [t \in Threads |-> "idle"]
    /\ phase = [t \in Threads |-> "local"]
    /\ loc = [t \in Threads |-> Blank]
    /\ resp = [t \in Threads |-> NoResp]
    /\ clock = 0
    /\ deleted = {}

NextOrder ==
    \/ \E t \in Threads : Acquire(t)
    \/ \E t \in Threads : store_get_teapot(t)
    \/ \E t \in Threads : store_update_teapot(t)
    \/ \E t \in Threads : store_delete_teapot(t)
    \/ \E t \in Threads : store_list_teapots(t)
    \/ \E t \in Threads : patch_teapot_begin(t)
    \/ \E t \in Threads : patch_teapot_merge(t)
    \/ \E t \in Threads : patch_teapot_respond(t)
    \/ \E t \in Threads : delete_teapot_begin(t)
    \/ \E t \in Threads : delete_teapot_respond(t)
    \/ \E t \in Threads : list_teapots_all_begin(t)
    \/ \E t \in Threads : list_teapots_respond(t)

SpecOrder == InitOrder /\ [][NextOrder]_vars

(***************************************************************************)
(* SpecSteeps: GET /brews/{id}/steeps from a store that holds two brews    *)
(* and up to MaxSteeps steeps, the state after that many POST              *)
(* /brews/{id}/steeps served by threads in parallel: the number of a steep *)
(* is one more than the largest number among the steeps of its brew that   *)
(* were stored when get_next_steep_number ran, which is some prefix of     *)
(* those stored before it.                                                 *)
(***************************************************************************)
SecondBrew == [SeedBrew EXCEPT !.id = 4]

\* h[i] = <<brew id, steep number>> of the i-th steep stored
NumberedByStore(h) ==
    \A i \in DOMAIN h :
        LET earlier == SelectSeq(SubSeq(h, 1, i - 1), LAMBDA x : x[1] = h[i][1])
        IN  \E p \in 0..Len(earlier) :
              h[i][2] = IF p = 0 THEN 1
                        ELSE 1 + SetMax({earlier[j][2] : j \in 1..p})

SteepHistories ==
    {h \in UNION {[1..n -> {3, 4} \X (1..MaxSteeps)] : n \in 0..MaxSteeps} :
        NumberedByStore(h)}

InitSteeps ==
    /\ teapots = <<SeedTeapot>>
    /\ teas = <<SeedTea>>
    /\ brews = <<SeedBrew, SecondBrew>>
    /\ \E h \in SteepHistories :
         /\ steeps = [i \in DOMAIN h |->
                        NewSteep(4 + i, h[i][1], h[i][2], [durationSeconds |-> Some(30)], 0)]
         /\ born = <<Born("teapot", SeedTeapot), Born("tea", SeedTea),
                     Born("brew", SeedBrew), Born("brew", SecondBrew)>>
                   \o [i \in DOMAIN h |->
                        [kind |-> "steep", id |-> 4 + i, created_at |-> 0]]
         /\ uuid = 4 + Len(h)
    /\ lock = 0
    /\ pc = [t \in Threads |-> "idle"]
    /\ phase = [t \in Threads |-> "local"]
    /\ loc = [t \in Threads |-> Blank]
    /\ resp = [t \in Threads |-> NoResp]
    /\ clock = 0
    /\ deleted = {}

NextSteeps ==
    \/ \E t \in Threads : Acquire(t)
    \/ \E t \in Threads : store_get_brew(t)
    \/ \E t \in Threads : store_list_steeps_by_brew(t)
    \/ \E t \in Threads : list_steeps_begin(t)
    \/ \E t \in Threads : list_steeps_validate(t)
    \/ \E t \in Threads : list_steeps_respond(t)

SpecSteeps == InitSteeps /\ [][NextSteeps]_vars

(***************************************************************************)
(* SpecTeapotBrews: GET /teapots/{id}/brews and GET /brews next to DELETE  *)
(* /teapots/{id}, from a store that holds two teapots, one tea and up to   *)
(* two brews, each made in one of the teapots (the state after that many   *)
(* POST requests).                                                         *)
(***************************************************************************)
SecondTeapot == NewTeapot(3, CreatedTeapotBody(2), 0)

InitTeapotBrews ==
    /\ teapots = <<SeedTeapot, SecondTeapot>>
    /\ teas = <<SeedTea>>
    /\ \E pots \in UNION {[1..n -> {1, 3}] : n \in 0..2} :
         /\ brews = [i \in DOMAIN pots |->
                       [SeedBrew EXCEPT !.id = 3 + i, !.teapot_id = pots[i]]]
         /\ born = <<Born("teapot", SeedTeapot), Born("tea", SeedTea),
                     Born("teapot", SecondTeapot)>>
                   \o [i \in DOMAIN pots |-> [kind |-> "brew", id |-> 3 + i, created_at |-> 0]]
         /\ uuid = 3 + Len(pots)
    /\ steeps = <<>>
    /\ lock = 0
    /\ pc = [t \in Threads |-> "idle"]
    /\ phase = [t \in Threads |-> "local"]
    /\ loc = [t \in Threads |-> Blank]
    /\ resp = [t \in Threads |-> NoResp]
    /\ clock = 0
    /\ deleted = {}

NextTeapotBrews ==
    \/ \E t \in Threads : Acquire(t)
    \/ \E t \in Threads : store_get_teapot(t)
    \/ \E t \in Threads : store_list_brews_by_teapot(t)
    \/ \E t \in Threads : store_list_brews(t)
    \/ \E t \in Threads : store_delete_teapot(t)
    \/ \E t \in Threads : list_teapot_brews_begin(t)
    \/ \E t \in Threads : list_teapot_brews_validate(t)
    \/ \E t \in Threads : list_teapot_brews_respond(t)
    \/ \E t \in Threads : list_brews_begin(t)
    \/ \E t \in Threads : list_brews_respond(t)
    \/ \E t \in Threads : delete_teapot_begin(t)
    \/ \E t \in Threads : delete_teapot_respond(t)

SpecTeapotBrews == InitTeapotBrews /\ [][NextTeapotBrews]_vars

(***************************************************************************)
(* SpecDelete: DELETE and GET of teapots, teas and brews by id, from the   *)
(* stores of InitSteeps.                                                   *)
(***************************************************************************)
NextDelete ==
    \/ \E t \in Threads : Acquire(t)
    \/ \E t \in Threads : store_get_teapot(t)
    \/ \E t \in Threads : store_get_tea(t)
    \/ \E t \in Threads : store_get_brew(t)
    \/ \E t \in Threads : store_delete_teapot(t)
    \/ \E t \in Threads : store_delete_tea(t)
    \/ \E t \in Threads : store_delete_brew(t)
    \/ \E t \in Threads : store_delete_brew_cascade(t)
    \/ \E t \in Threads : get_teapot_begin(t)
    \/ \E t \in Threads : get_teapot_respond(t)
    \/ \E t \in Threads : get_tea_begin(t)
    \/ \E t \in Threads : get_tea_respond(t)
    \/ \E t \in Threads : get_brew_begin(t)
    \/ \E t \in Threads : get_brew_respond(t)
    \/ \E t \in Threads : delete_teapot_begin(t)
    \/ \E t \in Threads : delete_teapot_respond(t)
    \/ \E t \in Threads : delete_tea_begin(t)
    \/ \E t \in Threads : delete_tea_respond(t)
    \/ \E t \in Threads : delete_brew_begin(t)
    \/ \E t \in Threads : delete_brew_respond(t)

SpecDelete == InitSteeps /\ [][NextDelete]_vars

(***************************************************************************)
(* SpecPatchSteeps: PATCH and DELETE of brews from the store of Init with  *)
(* one steep of the brew added (the state after one POST                   *)
(* /brews/{id}/steeps).                                                    *)
(***************************************************************************)
FirstSteep == NewSteep(4, SeedBrew.id, 1, [durationSeconds |-> Some(30)], 0)

InitOneSteep ==
    /\ teapots = <<SeedTeapot>>
    /\ teas = <<SeedTea>>
    /\ brews = <<SeedBrew>>
    /\ steeps = <<FirstSteep>>
    /\ lock = 0
    /\ pc = [t \in Threads |-> "idle"]
    /\ phase = [t \in Threads |-> "local"]
    /\ loc = [t \in Threads |-> Blank]
    /\ resp = [t \in Threads |-> NoResp]
    /\ uuid = 4
    /\ clock = 0
    /\ deleted = {}
    /\ born = <<Born("teapot", SeedTeapot), Born("tea", SeedTea), Born("brew", SeedBrew),
                Born("steep", FirstSteep)>>

SpecPatchSteeps == InitOneSteep /\ [][NextPatchBrew]_vars

(***************************************************************************)
(* SpecSeq: the requests of Spec served one after another: a request is    *)
(* taken only when no other is being served.                               *)
(***************************************************************************)
Sequential == Cardinality({t \in Threads : pc[t] # "idle"}) <= 1

NextSeq == Next /\ Sequential'

SpecSeq == Init /\ [][NextSeq]_vars

(***************************************************************************)
(* SpecPaths: every request that names an entity in its path (GET, PUT,    *)
(* PATCH, DELETE by id, GET and POST /brews/{id}/steeps, GET               *)
(* /teapots/{id}/brews), served one after another from a store in which    *)
(* one of the three entities of Init is left and the other two have been   *)
(* deleted.                                                                *)
(***************************************************************************)
InitPaths ==
    /\ \E kind \in {"teapot", "tea", "brew"} :
         /\ teapots = IF kind = "teapot" THEN <<SeedTeapot>> ELSE <<>>
         /\ teas = IF kind = "tea" THEN <<SeedTea>> ELSE <<>>
         /\ brews = IF kind = "brew" THEN <<SeedBrew>> ELSE <<>>
         /\ deleted = IF kind = "brew" THEN {} ELSE {SeedBrew.id}
    /\ steeps = <<>>
    /\ lock = 0
    /\ pc = [t \in Threads |-> "idle"]
    /\ phase = [t \in Threads |-> "local"]
    /\ loc = [t \in Threads |-> Blank]
    /\ resp = [t \in Threads |-> NoResp]
    /\ uuid = 3
    /\ clock = 0
    /\ born = <<Born("teapot", SeedTeapot), Born("tea", SeedTea), Born("brew", SeedBrew)>>

NextPaths ==
    \/ NextTeapot
    \/ NextTea
    \/ NextPatchBrew
    \/ Next
    \/ \E t \in Threads : get_teapot_begin(t)
    \/ \E t \in Threads : get_teapot_respond(t)
    \/ \E t \in Threads : get_tea_begin(t)
    \/ \E t \in Threads : get_tea_respond(t)
    \/ \E t \in Threads : get_brew_begin(t)
    \/ \E t \in Threads : get_brew_respond(t)
    \/ \E t \in Threads : store_list_brews_by_teapot(t)
    \/ \E t \in Threads : list_teapot_brews_begin(t)
    \/ \E t \in Threads : list_teapot_brews_validate(t)
    \/ \E t \in Threads : list_teapot_brews_respond(t)
    \/ \E t \in Threads : store_list_steeps_by_brew(t)
    \/ \E t \in Threads : list_steeps_begin(t)
    \/ \E t \in Threads : list_steeps_validate(t)
    \/ \E t \in Threads : list_steeps_respond(t)

NextPathsSeq == NextPaths /\ Sequential'

SpecPaths == InitPaths /\ [][NextPathsSeq]_vars

\* FairSpec: Spec under fair scheduling.  A thread that can take a step of a
\* handler or of a store body takes it, and a thread blocked in Lock.acquire()
\* gets the lock if the lock is free again and again.  No request has to arrive.
Running(t) ==
    \/ store_get_brew(t)
    \/ store_delete_brew(t)
    \/ store_delete_brew_cascade(t)
    \/ store_create_steep(t)
    \/ store_get_next_steep_number(t)
    \/ delete_brew_respond(t)
    \/ create_steep_validate(t)
    \/ create_steep_build(t)
    \/ create_steep_respond(t)

FairSpec ==
    /\ Spec
    /\ \A t \in Threads : WF_vars(Running(t))
    /\ \A t \in Threads : SF_vars(Acquire(t))

(***************************************************************************)
(* Properties.                                                             *)
(***************************************************************************)
\* the steeps stored for brew b, in dict order
SteepsOf(b) == SelectSeq(steeps, LAMBDA s : s.brew_id = b)
SteepNumbersOf(b) == {SteepsOf(b)[i].steep_number : i \in DOMAIN SteepsOf(b)}
\* a store method is in progress on thread t: it holds the lock
Holding(t) == phase[t] \in {"body", "cascade"}
\* delete_brew has removed the brew and not yet its steeps
MidCascade == \E t \in Threads : phase[t] = "cascade"

\* C1: no two steeps stored for the same brew carry the same steep_number.
C1_UniqueSteepNumbers ==
    \A i, j \in DOMAIN steeps :
        (i # j /\ steeps[i].brew_id = steeps[j].brew_id)
            => steeps[i].steep_number # steeps[j].steep_number

\* C2: for every brew id b the steep numbers stored for b are exactly 1..n, where
\* n is the number of steeps stored for b.
C2_SteepNumbersDense ==
    \A b \in {steeps[i].brew_id : i \in DOMAIN steeps} :
        SteepNumbersOf(b) = 1..Len(SteepsOf(b))

\* C3: delete_brew removes the brew and its steeps in one atomic step.  While the
\* brew is gone and its steeps are still stored no other thread is inside a store
\* method, and the step that ends delete_brew leaves the brew absent and none of
\* its steeps stored.
C3_CascadeAtomic ==
    [][\A t \in Threads :
          /\ phase[t] = "cascade" =>
                \A u \in Threads \ {t} : ~Holding(u)
          /\ (phase[t] = "cascade" /\ phase'[t] # "cascade") =>
                /\ ~Has(brews', loc[t].key)
                /\ \A i \in DOMAIN steeps' : steeps'[i].brew_id # loc[t].key]_vars

\* C3 witness: delete_brew is between removing a brew that has steeps and removing
\* the steeps, while another thread waits to enter a store method.
C3_Witness ==
    \E t, u \in Threads :
        /\ phase[t] = "cascade"
        /\ SteepsOf(loc[t].key) # <<>>
        /\ phase[u] = "call"

\* C4: once delete_brew(b) has returned True, get_brew(b) gives None and
\* list_steeps_by_brew(b) gives no items and total 0, in every later state.
C4_DeletedStaysGone ==
    \A b \in deleted :
        /\ DictGet(brews, b) = None
        /\ ListSteepsByBrew(b, 1, 20) = <<<<>>, 0>>

\* C5: whenever create_brew inserts a brew, a teapot with its teapot_id and a tea
\* with its tea_id are in the store in the state in which the insertion takes effect.
C5_BrewRefsExistAtInsert ==
    [][\A i \in DOMAIN brews' :
          ~Has(brews, brews'[i].id) =>
              /\ Has(teapots', brews'[i].teapot_id)
              /\ Has(teas', brews'[i].tea_id)]_vars

\* C6: every stored steep's brew_id is the id of a stored brew, in every state
\* another store method can see.
C6_SteepsHaveBrew ==
    ~MidCascade => \A i \in DOMAIN steeps : Has(brews, steeps[i].brew_id)

\* C7: a thread inside a store method holds the lock, so no two threads are inside
\* store methods at once, and the lock is held only by a thread inside a store
\* method: it is free when no store method runs and between a handler's calls.
C7_LockDiscipline ==
    /\ \A t \in Threads : Holding(t) => lock = t
    /\ lock # 0 => (lock \in Threads /\ Holding(lock))

\* C7 witness: one thread is inside a store method while another waits for the lock.
C7_Witness ==
    \E t, u \in Threads :
        /\ t # u
        /\ phase[t] = "body"
        /\ lock = t
        /\ phase[u] = "call"

\* C8: under fair scheduling every store call that has started returns, and no
\* thread waits for the lock while holding it.
C8_CallsReturn ==
    /\ [](\A t \in Threads : phase[t] = "call" => lock # t)
    /\ \A t \in Threads : (phase[t] \in {"call", "body", "cascade"}) ~> (phase[t] = "local")

\* C8 witness: both threads wait for the lock at once.
C8_Witness ==
    \A t \in Threads : phase[t] = "call"

\* C9: a PUT or PATCH never makes an id present in a collection: the store write
\* of an update leaves no id in the teapots, teas or brews that was absent
\* immediately before the write, so a deleted entity does not reappear.
C9_UpdateNeverInserts ==
    [][\A t \in Threads :
         /\ store_update_teapot(t) => Ids(teapots') \subseteq Ids(teapots)
         /\ store_update_tea(t) => Ids(teas') \subseteq Ids(teas)
         /\ store_update_brew(t) => Ids(brews') \subseteq Ids(brews)]_vars

\* C10: when the store write of a successful PATCH takes effect on an entity that
\* is present, every patchable field left out of the body keeps the value it had
\* in the store immediately before the write, and every field in the body
\* (a null for a nullable field included) takes the supplied value.
C10_PatchKeepsOmitted ==
    [][\A t \in Threads :
         LET Stored(e, f, nullable) == IF nullable THEN e[f] ELSE Some(e[f])
             AsAsked(new, old, f, k, nullable) ==
                 Stored(new, f, nullable) =
                     IF Supplied(loc[t].data, k) THEN loc[t].data[k]
                     ELSE Stored(old, f, nullable)
         IN  /\ (/\ pc[t] = "patch_teapot.update_teapot"
                 /\ store_update_teapot(t)
                 /\ Has(teapots, loc[t].id))
                => LET new == Val(DictGet(teapots', loc[t].id))
                       old == Val(DictGet(teapots, loc[t].id))
                   IN  /\ AsAsked(new, old, "name", "name", FALSE)
                       /\ AsAsked(new, old, "material", "material", FALSE)
                       /\ AsAsked(new, old, "capacity_ml", "capacityMl", FALSE)
                       /\ AsAsked(new, old, "style", "style", FALSE)
                       /\ AsAsked(new, old, "description", "description", TRUE)
             /\ (/\ pc[t] = "patch_tea.update_tea"
                 /\ store_update_tea(t)
                 /\ Has(teas, loc[t].id))
                => LET new == Val(DictGet(teas', loc[t].id))
                       old == Val(DictGet(teas, loc[t].id))
                   IN  /\ AsAsked(new, old, "name", "name", FALSE)
                       /\ AsAsked(new, old, "type", "type", FALSE)
                       /\ AsAsked(new, old, "origin", "origin", TRUE)
                       /\ AsAsked(new, old, "caffeine_level", "caffeineLevel", FALSE)
                       /\ AsAsked(new, old, "steep_temp_celsius", "steepTempCelsius", FALSE)
                       /\ AsAsked(new, old, "steep_time_seconds", "steepTimeSeconds", FALSE)
                       /\ AsAsked(new, old, "description", "description", TRUE)
             /\ (/\ pc[t] = "patch_brew.update_brew"
                 /\ store_update_brew(t)
                 /\ Has(brews, loc[t].id))
                => LET new == Val(DictGet(brews', loc[t].id))
                       old == Val(DictGet(brews, loc[t].id))
                   IN  /\ AsAsked(new, old, "status", "status", FALSE)
                       /\ AsAsked(new, old, "notes", "notes", TRUE)
                       /\ AsAsked(new, old, "completed_at", "completedAt", TRUE)]_vars

\* C11: the store write of a successful PUT or PATCH on an entity that is present
\* leaves it with an updated_at strictly greater than the updated_at it had in
\* the store immediately before the write.
C11_UpdatedAtIncreases ==
    [][\A t \in Threads :
         /\ (store_update_teapot(t) /\ Has(teapots, loc[t].id))
            => Val(DictGet(teapots', loc[t].id)).updated_at
                 > Val(DictGet(teapots, loc[t].id)).updated_at
         /\ (store_update_tea(t) /\ Has(teas, loc[t].id))
            => Val(DictGet(teas', loc[t].id)).updated_at
                 > Val(DictGet(teas, loc[t].id)).updated_at
         /\ (store_update_brew(t) /\ Has(brews, loc[t].id))
            => Val(DictGet(brews', loc[t].id)).updated_at
                 > Val(DictGet(brews, loc[t].id)).updated_at]_vars

\* C12: every stored teapot, tea and brew has the id and the created_at it was
\* given when it was created, whatever PUT and PATCH requests have been served.
C12_IdAndCreatedAtKept ==
    /\ \A i \in DOMAIN teapots : Born("teapot", teapots[i]) \in BornSet
    /\ \A i \in DOMAIN teas : Born("tea", teas[i]) \in BornSet
    /\ \A i \in DOMAIN brews : Born("brew", brews[i]) \in BornSet

\* C12 witness: an update whose body carried an id and a createdAt has been
\* written, at a later clock reading than the entity's creation.
C12_Witness ==
    \E t \in Threads :
        /\ pc[t] \in {"update_teapot.respond", "patch_teapot.respond"}
        /\ Supplied(loc[t].data, "id") /\ Supplied(loc[t].data, "createdAt")
        /\ \E i \in DOMAIN teapots :
             /\ teapots[i] = Val(loc[t].ent)
             /\ teapots[i].updated_at > teapots[i].created_at

\* C13: the entity a create stores has a non-empty id that no entity of its kind
\* created earlier has, deleted ones included, and no two entities of one
\* collection share an id.
C13_FreshIds ==
    [][/\ \A t \in Threads :
            /\ store_create_teapot(t)
               => /\ Val(loc[t].ent).id # 0
                  /\ \A i \in DOMAIN born :
                       born[i].kind = "teapot" => born[i].id # Val(loc[t].ent).id
            /\ store_create_brew(t)
               => /\ Val(loc[t].ent).id # 0
                  /\ \A i \in DOMAIN born :
                       born[i].kind = "brew" => born[i].id # Val(loc[t].ent).id
            /\ store_create_steep(t)
               => /\ Val(loc[t].ent).id # 0
                  /\ \A i \in DOMAIN born :
                       born[i].kind = "steep" => born[i].id # Val(loc[t].ent).id
       /\ \A i, j \in DOMAIN teapots' : i # j => teapots'[i].id # teapots'[j].id
       /\ \A i, j \in DOMAIN brews' : i # j => brews'[i].id # brews'[j].id
       /\ \A i, j \in DOMAIN steeps' : i # j => steeps'[i].id # steeps'[j].id]_vars

\* C13 witness: a create has stored a teapot after an earlier teapot was deleted.
C13_Witness ==
    \E t \in Threads :
        /\ At(t, "create_teapot.respond")
        /\ Has(teapots, Val(loc[t].ent).id)
        /\ \E i \in DOMAIN born : born[i].kind = "teapot" /\ ~Has(teapots, born[i].id)

\* the 400 responses of create_brew for a missing teapot and a missing tea
TeapotNotFound400 ==
    [NoResp EXCEPT !.status = 400, !.code = "NOT_FOUND", !.message = "Teapot not found"]
TeaNotFound400 ==
    [NoResp EXCEPT !.status = 400, !.code = "NOT_FOUND", !.message = "Tea not found"]

\* C14 as stated: when a create-brew request with a valid body is answered, a
\* teapotId that is not in the store gives 400 NOT_FOUND 'Teapot not found', a
\* teaId that is not in the store gives 400 NOT_FOUND 'Tea not found', and in
\* both cases the step leaves the four collections unchanged.
C14_MissingRefAnswered ==
    [][\A t \in Threads :
         (/\ pc[t] \in {"create_brew.check_teapot", "create_brew.build", "create_brew.respond"}
          /\ pc'[t] = "idle")
         => /\ ~Has(teapots, Val(loc[t].data.teapotId))
               => (resp'[t] = TeapotNotFound400 /\ UNCHANGED store_vars)
            /\ ~Has(teas, Val(loc[t].data.teaId))
               => (resp'[t] = TeaNotFound400 /\ UNCHANGED store_vars)]_vars

\* C14 amended: a create-brew request whose teapot lookup finds nothing is
\* answered 400 NOT_FOUND 'Teapot not found'; one whose teapot lookup finds the
\* teapot and whose tea lookup finds nothing is answered 400 NOT_FOUND 'Tea not
\* found'; either answer leaves the four collections unchanged, and a brew is
\* inserted only by a request whose tea lookup found the tea.
C14_MissingRefPrecedence ==
    [][\A t \in Threads :
         /\ (store_get_teapot(t) /\ pc[t] = "create_brew.get_teapot"
                /\ ~Has(teapots, loc[t].key))
            => loc'[t].found = None
         /\ (store_get_tea(t) /\ pc[t] = "create_brew.get_tea" /\ ~Has(teas, loc[t].key))
            => loc'[t].found = None
         /\ (At(t, "create_brew.check_teapot") /\ loc[t].found = None /\ pc'[t] # pc[t])
            => (resp'[t] = TeapotNotFound400 /\ pc'[t] = "idle" /\ UNCHANGED store_vars)
         /\ (At(t, "create_brew.build") /\ loc[t].found = None /\ pc'[t] # pc[t])
            => (resp'[t] = TeaNotFound400 /\ pc'[t] = "idle" /\ UNCHANGED store_vars)
         /\ store_create_brew(t) => loc[t].found # None]_vars

\* C14 witness: one request has been answered 'Teapot not found' and another
\* 'Tea not found'.
C14_Witness ==
    \E t, u \in Threads : resp[t] = TeapotNotFound400 /\ resp[u] = TeaNotFound400

\* C15: delete_teapot and delete_tea leave the brews and the steeps as they are,
\* and remove a stored teapot or tea (returning True) whether or not brews
\* reference it.
C15_DeleteLeavesBrews ==
    [][\A t \in Threads :
         /\ store_delete_teapot(t)
            => /\ brews' = brews /\ steeps' = steeps /\ teas' = teas
               /\ Has(teapots, loc[t].key)
                  => (loc'[t].ok /\ teapots' = DictDel(teapots, loc[t].key))
         /\ store_delete_tea(t)
            => /\ brews' = brews /\ steeps' = steeps /\ teapots' = teapots
               /\ Has(teas, loc[t].key)
                  => (loc'[t].ok /\ teas' = DictDel(teas, loc[t].key))]_vars

\* C15 witness: delete_teapot has returned True for a teapot that a stored brew
\* references.
C15_Witness ==
    \E t \in Threads :
        /\ At(t, "delete_teapot.respond")
        /\ loc[t].ok
        /\ \E i \in DOMAIN brews : brews[i].teapot_id = loc[t].key

MatchesBrewQuery(b, query) ==
    /\ Supplied(query, "status") => b.status = Val(query.status)
    /\ Supplied(query, "teapotId") => b.teapot_id = Val(query.teapotId)
    /\ Supplied(query, "teaId") => b.tea_id = Val(query.teaId)

\* C17: list_brews selects exactly the stored brews that equal every filter the
\* query supplies, the empty string for teapotId or teaId included: the page
\* holds matching brews only and total counts exactly the matching brews.
C17_FiltersConstrain ==
    [][\A t \in Threads :
         store_list_brews(t)
         => /\ \A i \in DOMAIN loc'[t].items :
                 MatchesBrewQuery(loc'[t].items[i], loc[t].data)
            /\ loc'[t].total =
                 Len(SelectSeq(brews, LAMBDA b : MatchesBrewQuery(b, loc[t].data)))]_vars

\* the teapots a query selects, before paging: those equal on each filter field
\* the query supplies
FilteredTeapots(query) ==
    SelectSeq(teapots, LAMBDA x :
        /\ Supplied(query, "material") => x.material = Val(query.material)
        /\ Supplied(query, "style") => x.style = Val(query.style))

\* C18: for page >= 1 and limit >= 1 a list request returns the items at the
\* 0-based positions [(page-1)*limit, (page-1)*limit + limit) of the filtered
\* sequence, clipped to its length, and total is the length of the filtered
\* sequence; a page past the end is an empty list with the same total.
C18_PageWindow ==
    [][\A t \in Threads :
         store_list_teapots(t)
         => LET query    == loc[t].data
                filtered == FilteredTeapots(query)
                start    == (QueryPage(query) - 1) * QueryLimit(query)
                items    == loc'[t].items
            IN  /\ loc'[t].total = Len(filtered)
                /\ \A pos \in 0..(Len(filtered) - 1) :
                     (start <= pos /\ pos < start + QueryLimit(query))
                     => /\ pos - start + 1 \in DOMAIN items
                        /\ items[pos - start + 1] = filtered[pos + 1]
                /\ \A j \in DOMAIN items : start + j <= Len(filtered)
                /\ Len(items) <= QueryLimit(query)
                /\ start >= Len(filtered) => items = <<>>]_vars

\* C18 witness: the second page of two items out of five teapots, and in another
\* request a page past the end of a collection that is not empty.
C18_Witness ==
    /\ \E t \in Threads :
         /\ At(t, "list_teapots.respond")
         /\ loc[t].data = [page |-> Some(2), limit |-> Some(2)]
         /\ loc[t].total = 5
         /\ Len(loc[t].items) = 2
         /\ loc[t].items[1].id = 3
    /\ \E t \in Threads :
         /\ At(t, "list_teapots.respond")
         /\ loc[t].data = [page |-> Some(4), limit |-> Some(2)]
         /\ loc[t].total = 5
         /\ loc[t].items = <<>>

\* C19: the totalPages of a list response is 0 when total is 0 and otherwise the
\* least number of pages of `limit` items that hold `total` items.
C19_TotalPagesIsCeiling ==
    \A t \in Threads :
        resp[t].status = 200 /\ resp[t].pagination.limit > 0
        => LET p == resp[t].pagination
           IN  /\ p.limit \in 1..100
               /\ p.total = 0 => p.total_pages = 0
               /\ p.total > 0 => /\ p.total_pages * p.limit >= p.total
                                 /\ (p.total_pages - 1) * p.limit < p.total

\* C19 witness: five teapots listed two to a page make three pages.
C19_Witness ==
    \E t \in Threads :
        /\ resp[t].status = 200
        /\ resp[t].pagination.total = 5
        /\ resp[t].pagination.limit = 2
        /\ resp[t].pagination.total_pages = 3

\* the place of an entity's create among all creates
BornIndex(kind, id) ==
    CHOOSE i \in DOMAIN born : born[i].kind = kind /\ born[i].id = id

\* C20: list_teapots returns the teapots in the order in which they were
\* created, PUT and PATCH requests notwithstanding.
C20_CreationOrder ==
    [][\A t \in Threads :
         store_list_teapots(t)
         => \A i, j \in DOMAIN loc'[t].items :
              i < j => BornIndex("teapot", loc'[t].items[i].id)
                         < BornIndex("teapot", loc'[t].items[j].id)]_vars

\* C21: list_steeps_by_brew(b) returns only steeps of brew b, in ascending order
\* of steep_number whatever the order in which they were stored, the page being
\* cut out of the sorted steeps; total is the number of steeps of brew b.
C21_SteepsSortedThenPaged ==
    [][\A t \in Threads :
         store_list_steeps_by_brew(t)
         => LET b     == loc[t].key
                mine  == SteepsOf(b)
                limit == QueryLimit(loc[t].data)
                start == (QueryPage(loc[t].data) - 1) * limit
                items == loc'[t].items
                Below(n) == Cardinality({i \in DOMAIN mine : mine[i].steep_number < n})
                UpTo(n)  == Cardinality({i \in DOMAIN mine : mine[i].steep_number <= n})
            IN  /\ loc'[t].total = Len(mine)
                /\ \A j \in DOMAIN items :
                     /\ items[j].brew_id = b
                     /\ \E i \in DOMAIN mine : mine[i] = items[j]
                     /\ Below(items[j].steep_number) <= start + j - 1
                     /\ UpTo(items[j].steep_number) >= start + j
                /\ \A i, j \in DOMAIN items :
                     i < j => /\ items[i].steep_number <= items[j].steep_number
                              /\ items[i].id # items[j].id
                /\ Len(items) = IF Len(mine) <= start THEN 0
                                ELSE IF Len(mine) - start < limit THEN Len(mine) - start
                                ELSE limit]_vars

\* C21 witness: a brew whose steeps were stored with numbers 1, 2, 1 is listed
\* with the numbers 1, 1, 2, next to a steep of the other brew.
C21_Witness ==
    \E t \in Threads :
        /\ At(t, "list_steeps.respond")
        /\ Len(loc[t].items) = 3
        /\ loc[t].items[3].steep_number = 2
        /\ loc[t].items[3].id < loc[t].items[2].id

C23_DeleteReturnsPresence ==
    [][\A t \in Threads :
         /\ store_delete_teapot(t)
            => /\ loc'[t].ok = Has(teapots, loc[t].key)
               /\ ~Has(teapots', loc[t].key)
               /\ DictGet(teapots', loc[t].key) = None
               /\ ~Has(teapots, loc[t].key) => UNCHANGED store_vars
         /\ store_delete_tea(t)
            => /\ loc'[t].ok = Has(teas, loc[t].key)
               /\ ~Has(teas', loc[t].key)
               /\ DictGet(teas', loc[t].key) = None
               /\ ~Has(teas, loc[t].key) => UNCHANGED store_vars
         /\ store_delete_brew(t)
            => /\ ~Has(brews', loc[t].key)
               /\ DictGet(brews', loc[t].key) = None
               /\ ~Has(brews, loc[t].key)
                  => (UNCHANGED store_vars /\ ~loc'[t].ok /\ pc'[t] = "delete_brew.respond")
               /\ Has(brews, loc[t].key) => phase'[t] = "cascade"
         /\ store_delete_brew_cascade(t)
            => /\ loc'[t].ok
               /\ pc'[t] = "delete_brew.respond"
               /\ ~Has(brews', loc[t].key)]_vars

\* C23 witness: one delete has returned True for a brew that is gone while
\* another has returned False for a teapot id the store does not hold.
C23_Witness ==
    \E t, u \in Threads :
        /\ At(t, "delete_brew.respond") /\ loc[t].ok /\ ~Has(brews, loc[t].key)
        /\ loc[t].key \in deleted
        /\ At(u, "delete_teapot.respond") /\ ~loc[u].ok /\ ~Has(teapots, loc[u].key)

\* C24: a brew created without waterTempCelsius is stored with the
\* steep_temp_celsius of the tea the request read, and a brew created with a
\* waterTempCelsius in 60..100 is stored with that value.
C24_WaterTemp ==
    [][\A t \in Threads :
         store_create_brew(t)
         => LET w      == Field(loc[t].data, "waterTempCelsius", None)
                stored == Val(DictGet(brews', Val(loc[t].ent).id))
            IN  /\ Has(brews', Val(loc[t].ent).id)
                /\ w = None
                   => stored.water_temp_celsius = Val(loc[t].found).steep_temp_celsius
                /\ w # None
                   => (Val(w) \in 60..100 /\ stored.water_temp_celsius = Val(w))]_vars

\* C24 witness: the store holds a brew made at the tea's 80 degrees and a brew
\* made at the 75 degrees its request asked for.
C24_Witness ==
    /\ \E i \in DOMAIN brews : brews[i].water_temp_celsius = SeedTea.steep_temp_celsius
    /\ \E i \in DOMAIN brews : brews[i].water_temp_celsius = 75

\* a PATCH /teapots body breaks a field constraint of the Teapot schema: a field
\* out of range or outside its enum, or null for a field that is not nullable
PatchTeapotBodyViolates(body) ==
    \/ Supplied(body, "name") /\ (body.name = None \/ ~TeapotNameOk(Val(body.name)))
    \/ Supplied(body, "material")
       /\ (body.material = None \/ ~TeapotMaterialOk(Val(body.material)))
    \/ Supplied(body, "capacityMl")
       /\ (body.capacityMl = None \/ ~TeapotCapacityOk(Val(body.capacityMl)))
    \/ Supplied(body, "style") /\ (body.style = None \/ ~TeapotStyleOk(Val(body.style)))
    \/ Supplied(body, "description")
       /\ body.description # None /\ ~TeapotDescriptionOk(Val(body.description))

\* a PUT /teapots body breaks a constraint: as for PATCH, or a required field
\* is missing
UpdateTeapotBodyViolates(body) ==
    \/ PatchTeapotBodyViolates(body)
    \/ \E k \in {"name", "material", "capacityMl", "style"} : ~Supplied(body, k)

\* the 400 a rejected body is answered with
ValidationError400 ==
    [NoResp EXCEPT !.status = 400, !.code = "VALIDATION_ERROR",
                   !.message = "Invalid request body"]

\* C25: a PUT or PATCH of a stored teapot whose body breaks a field constraint
\* is answered 400 VALIDATION_ERROR without a store write, and only a body that
\* breaks none goes on to the store.
C25_InvalidBodyIs400 ==
    [][\A t \in Threads :
         /\ (patch_teapot_merge(t) /\ loc[t].found # None)
            => /\ pc'[t] = "idle"
                  => (resp'[t] = ValidationError400 /\ UNCHANGED store_vars)
               /\ pc'[t] # "idle" => ~PatchTeapotBodyViolates(loc'[t].data)
         /\ (update_teapot_build(t) /\ loc[t].found # None)
            => /\ pc'[t] = "idle"
                  => (resp'[t] = ValidationError400 /\ UNCHANGED store_vars)
               /\ pc'[t] # "idle" => ~UpdateTeapotBodyViolates(loc'[t].data)]_vars

\* where a handler looks at what its lookup of the path id returned
LookupPlaces ==
    {"get_teapot.respond", "get_tea.respond", "get_brew.respond",
     "update_teapot.build", "patch_teapot.merge", "update_tea.build", "patch_tea.merge",
     "patch_brew.merge", "create_steep.validate", "list_steeps.validate",
     "list_teapot_brews.validate"}
\* where a DELETE handler looks at what the store's delete returned
DeletePlaces == {"delete_teapot.respond", "delete_tea.respond", "delete_brew.respond"}

\* C26: a GET, PUT, PATCH or DELETE by id, a GET or POST on /brews/{id}/steeps
\* and a GET on /teapots/{id}/brews whose id the collection does not hold is
\* answered 404 NOT_FOUND, before any body or query is looked at, and the four
\* collections stay as they are.
C26_AbsentIdIs404 ==
    [][\A t \in Threads :
         /\ store_get_teapot(t)
            => (loc'[t].found = None <=> ~Has(teapots, loc[t].key)) /\ UNCHANGED store_vars
         /\ store_get_tea(t)
            => (loc'[t].found = None <=> ~Has(teas, loc[t].key)) /\ UNCHANGED store_vars
         /\ store_get_brew(t)
            => (loc'[t].found = None <=> ~Has(brews, loc[t].key)) /\ UNCHANGED store_vars
         /\ (store_delete_teapot(t) /\ ~Has(teapots, loc[t].key))
            => (~loc'[t].ok /\ UNCHANGED store_vars)
         /\ (store_delete_tea(t) /\ ~Has(teas, loc[t].key))
            => (~loc'[t].ok /\ UNCHANGED store_vars)
         /\ (store_delete_brew(t) /\ ~Has(brews, loc[t].key))
            => (~loc'[t].ok /\ UNCHANGED store_vars)
         /\ (/\ phase[t] = "local"
             /\ \/ pc[t] \in LookupPlaces /\ loc[t].found = None
                \/ pc[t] \in DeletePlaces /\ ~loc[t].ok
             /\ pc'[t] # pc[t])
            => /\ pc'[t] = "idle"
               /\ resp'[t].status = 404
               /\ resp'[t].code = "NOT_FOUND"
               /\ UNCHANGED store_vars]_vars

\* C26 witness: a PUT of a teapot id the store does not hold has been answered 404
\* and a GET of the steeps of an absent brew is about to be.
C26_Witness ==
    \E t, u \in Threads :
        /\ pc[t] = "idle" /\ resp[t].status = 404 /\ resp[t].message = "Teapot not found"
        /\ At(u, "list_steeps.validate") /\ loc[u].found = None

\* the stored teapot carries every value a PATCH body supplies: applying the
\* body to it again changes nothing
TeapotCarries(e, body) ==
    TeapotFrom(e.id, PatchTeapotData(e, body), e.created_at, e.updated_at) = e

\* C27: when two PATCH requests on one teapot that supply disjoint sets of
\* fields have both stored their teapot and are about to return 200, the stored
\* teapot carries the supplied values of both.
C27_NoLostUpdate ==
    \A t, u \in Threads :
        (/\ t # u
         /\ At(t, "patch_teapot.respond") /\ At(u, "patch_teapot.respond")
         /\ loc[t].id = loc[u].id
         /\ DOMAIN loc[t].data \cap DOMAIN loc[u].data = {}
         /\ Has(teapots, loc[t].id))
        => LET e == Val(DictGet(teapots, loc[t].id))
           IN  TeapotCarries(e, loc[t].data) /\ TeapotCarries(e, loc[u].data)

\* C28: a PATCH on a stored brew, whatever fields its body names, leaves the
\* brew's id, teapot_id, tea_id, water_temp_celsius, started_at and created_at
\* and every other brew as they were, and leaves the steeps as they were.
C28_PatchBrewFrame ==
    [][\A t \in Threads :
         (store_update_brew(t) /\ Has(brews, loc[t].id))
         => LET before == Val(DictGet(brews, loc[t].id))
                after  == Val(DictGet(brews', loc[t].id))
            IN  /\ Has(brews', loc[t].id)
                /\ after.id = before.id
                /\ after.teapot_id = before.teapot_id
                /\ after.tea_id = before.tea_id
                /\ after.water_temp_celsius = before.water_temp_celsius
                /\ after.started_at = before.started_at
                /\ after.created_at = before.created_at
                /\ Len(brews') = Len(brews)
                /\ \A i \in DOMAIN brews : brews[i].id # loc[t].id => brews'[i] = brews[i]
                /\ steeps' = steeps
                /\ teapots' = teapots /\ teas' = teas]_vars

\* C28 witness: a PATCH whose body names teapotId and waterTempCelsius has set the
\* status of a brew that has a steep.
C28_Witness ==
    \E t \in Threads :
        /\ At(t, "patch_brew.respond")
        /\ Supplied(loc[t].data, "teapotId") /\ Supplied(loc[t].data, "waterTempCelsius")
        /\ Has(brews, loc[t].id)
        /\ Val(DictGet(brews, loc[t].id)).status = "steeping"
        /\ Val(DictGet(brews, loc[t].id)).teapot_id = SeedBrew.teapot_id
        /\ SteepsOf(loc[t].id) # <<>>

\* `after` is `before` with exactly the items at the positions `kept` left, in
\* their order
SameInOrder(before, after, kept) ==
    /\ Len(after) = Cardinality(kept)
    /\ \A i \in kept : after[Cardinality({j \in kept : j <= i})] = before[i]

\* C29: delete_brew(id) leaves the teapots and the teas as they are, keeps every
\* brew with another id and every steep of another brew, in their order, and
\* removes nothing else than the brew and its steeps.
C29_DeleteBrewFrame ==
    [][\A t \in Threads :
         /\ store_delete_brew(t)
            => /\ teapots' = teapots /\ teas' = teas /\ steeps' = steeps
               /\ SameInOrder(brews, brews',
                              {i \in DOMAIN brews : brews[i].id # loc[t].key})
         /\ store_delete_brew_cascade(t)
            => /\ teapots' = teapots /\ teas' = teas /\ brews' = brews
               /\ SameInOrder(steeps, steeps',
                              {i \in DOMAIN steeps : steeps[i].brew_id # loc[t].key})]_vars

\* C29 witness: a brew and its steeps have been deleted while the other brew and
\* steeps of the other brew are still stored.
C29_Witness ==
    \E t \in Threads :
        /\ At(t, "delete_brew.respond")
        /\ loc[t].ok
        /\ loc[t].key \in deleted
        /\ Len(brews) = 1
        /\ Len(steeps) >= 2
        /\ \A i \in DOMAIN steeps : steeps[i].brew_id = brews[1].id
        /\ Len(born) = 7

\* the filters and the limits the pages are cut with
PageFilters == {NoBody, [material |-> Some("glass")], [style |-> Some("kyusu")],
                [material |-> Some("clay")]}
PageLimits == 1..(MaxId + 1) \cup {20, 100}

\* the query for page p of `limit` items under a filter
PageQuery(filter, p, limit) == [page |-> Some(p), limit |-> Some(limit)] @@ filter

\* the items of pages 1 to n, one page after the other
RECURSIVE PagesUpTo(_, _, _)
PagesUpTo(filter, limit, n) ==
    IF n = 0 THEN <<>>
    ELSE PagesUpTo(filter, limit, n - 1) \o ListTeapots(PageQuery(filter, n, limit))[1]

\* C30: in one store state, for every filter and every limit >= 1, the pages 1 to
\* ceil(total/limit) one after the other are the whole filtered sequence, each
\* page has at most limit items, and only the last can have fewer.
C30_PagesPartition ==
    \A filter \in PageFilters : \A limit \in PageLimits :
        LET filtered == FilteredTeapots(filter)
            total    == ListTeapots(PageQuery(filter, 1, limit))[2]
            last     == CHOOSE n \in 0..total :
                          n * limit >= total /\ (n = 0 \/ (n - 1) * limit < total)
        IN  /\ total = Len(filtered)
            /\ PagesUpTo(filter, limit, last) = filtered
            /\ \A p \in 1..last :
                 LET items == ListTeapots(PageQuery(filter, p, limit))[1]
                 IN  /\ Len(items) <= limit
                     /\ items # <<>>
                     /\ p < last => Len(items) = limit
            /\ ListTeapots(PageQuery(filter, last + 1, limit))[1] = <<>>

\* C30 witness: five teapots, and a request has read the third and last page of
\* two, which holds one teapot.
C30_Witness ==
    \E t \in Threads :
        /\ At(t, "list_teapots.respond")
        /\ loc[t].data = [page |-> Some(3), limit |-> Some(2)]
        /\ loc[t].total = 5
        /\ Len(loc[t].items) = 1
        /\ loc[t].items[1] = teapots[5]

====
